---- MODULE Spec2Model ----
(***************************************************************************)
(* A model of sphinxhp's keyed store (src/data.py): the Entry flyweight    *)
(* and its class cache, the Database flyweight and its class cache, and    *)
(* SphinxDatabase.initialize / expand_epath / get_data / get_epaths /      *)
(* write, together with DataExtractor.get_defs, which initialize() calls   *)
(* for every page.  Python objects are heap cells addressed by their       *)
(* index; every call is one atomic action (the program is single-threaded) *)
(* that records what the call returned or raised in the variable ret.      *)
(***************************************************************************)
EXTENDS Integers, Sequences, FiniteSets, TLC

VARIABLES
    entryHeap,         \* the Entry instances ever created, in creation order
    entry_classcache,  \* __entry_classcache__: cache key -> Entry index, 0 = absent
    dbHeap,            \* the Database instances ever created, in creation order
    db_classcache,     \* __db_classcache__: site_url -> Database index, 0 = absent
    ret                \* what the last call returned or raised

vars == <<entryHeap, entry_classcache, dbHeap, db_classcache, ret>>

----------------------------------------------------------------------------
(* Bounds of the model.                                                    *)

\* Entry instances the heap may hold.
MaxEntries == 4
\* Database instances the heap may hold.
MaxDbs == 2
\* Pages initialize() walks (the length of REGISTRY['links'] in the model).
NumLinks == 2

----------------------------------------------------------------------------
(* Strings.  Python strings are compared and concatenated as TLA+ strings; *)
(* where the code looks at single characters (the wildcard test and the    *)
(* regular expression of expand_epath) a string is spelled out by Chars.   *)

Chars(s) ==
  CASE s = "metadata/sphinx/site_url" -> <<"m", "e", "t", "a", "d", "a", "t", "a", "/", "s", "p", "h", "i", "n", "x", "/", "s", "i", "t", "e", "_", "u", "r", "l">>
    [] s = "metadata/sphinx/version" -> <<"m", "e", "t", "a", "d", "a", "t", "a", "/", "s", "p", "h", "i", "n", "x", "/", "v", "e", "r", "s", "i", "o", "n">>
    [] s = "metadata/stats/total_entries" -> <<"m", "e", "t", "a", "d", "a", "t", "a", "/", "s", "t", "a", "t", "s", "/", "t", "o", "t", "a", "l", "_", "e", "n", "t", "r", "i", "e", "s">>
    [] s = "data/type/role" -> <<"d", "a", "t", "a", "/", "t", "y", "p", "e", "/", "r", "o", "l", "e">>
    [] s = "data/type/directive" -> <<"d", "a", "t", "a", "/", "t", "y", "p", "e", "/", "d", "i", "r", "e", "c", "t", "i", "v", "e">>
    [] s = "x" -> <<"x">>
    [] s = "nokey" -> <<"n", "o", "k", "e", "y">>
    [] s = "DATA/TYPE/ROLE" -> <<"D", "A", "T", "A", "/", "T", "Y", "P", "E", "/", "R", "O", "L", "E">>
    [] s = "data/type/*" -> <<"d", "a", "t", "a", "/", "t", "y", "p", "e", "/", "*">>
    [] s = "data/type/rol?" -> <<"d", "a", "t", "a", "/", "t", "y", "p", "e", "/", "r", "o", "l", "?">>
    [] s = "meta*" -> <<"m", "e", "t", "a", "*">>
    [] s = "*" -> <<"*">>
    [] s = "data" -> <<"d", "a", "t", "a">>
    [] s = "DATA/X" -> <<"D", "A", "T", "A", "/", "X">>
    [] s = "database/x" -> <<"d", "a", "t", "a", "b", "a", "s", "e", "/", "x">>
    [] s = "data/y" -> <<"d", "a", "t", "a", "/", "y">>
    [] s = "data/*" -> <<"d", "a", "t", "a", "/", "*">>
    [] s = "data?" -> <<"d", "a", "t", "a", "?">>
    [] s = "d*a" -> <<"d", "*", "a">>
    [] s = "*/x" -> <<"*", "/", "x">>
    [] s = "" -> <<>>
    [] s = "A role." -> <<"A", " ", "r", "o", "l", "e", ".">>
    [] s = "One." -> <<"O", "n", "e", ".">>
    [] s = "Again." -> <<"A", "g", "a", "i", "n", ".">>
    [] s = "Odd." -> <<"O", "d", "d", ".">>
    [] s = "see mod." -> <<"s", "e", "e", " ", "m", "o", "d", ".">>
    [] s = "see e" -> <<"s", "e", "e", " ", "e">>
    [] s = "New in version 1.4. Some details." -> <<"N", "e", "w", " ", "i", "n", " ", "v", "e", "r", "s", "i", "o", "n", " ", "1", ".", "4", ".", " ", "S", "o", "m", "e", " ", "d", "e", "t", "a", "i", "l", "s", ".">>
    [] s = "new in VERSION 2.0 and New in version 1.1; Deprecated since version 3.0" -> <<"n", "e", "w", " ", "i", "n", " ", "V", "E", "R", "S", "I", "O", "N", " ", "2", ".", "0", " ", "a", "n", "d", " ", "N", "e", "w", " ", "i", "n", " ", "v", "e", "r", "s", "i", "o", "n", " ", "1", ".", "1", ";", " ", "D", "e", "p", "r", "e", "c", "a", "t", "e", "d", " ", "s", "i", "n", "c", "e", " ", "v", "e", "r", "s", "i", "o", "n", " ", "3", ".", "0">>
    [] s = "New in version 1. x" -> <<"N", "e", "w", " ", "i", "n", " ", "v", "e", "r", "s", "i", "o", "n", " ", "1", ".", " ", "x">>
    [] s = "name" -> <<"n", "a", "m", "e">>
    [] s = "value" -> <<"v", "a", "l", "u", "e">>
    [] s = "id" -> <<"i", "d">>
    [] s = "classname" -> <<"c", "l", "a", "s", "s", "n", "a", "m", "e">>
    [] s = "description" -> <<"d", "e", "s", "c", "r", "i", "p", "t", "i", "o", "n">>
    [] s = "since" -> <<"s", "i", "n", "c", "e">>
    [] s = "deprecated" -> <<"d", "e", "p", "r", "e", "c", "a", "t", "e", "d">>
    [] s = "link" -> <<"l", "i", "n", "k">>
    [] s = "role-a" -> <<"r", "o", "l", "e", "-", "a">>
    [] s = "role-b" -> <<"r", "o", "l", "e", "-", "b">>
    [] s = "dir-a" -> <<"d", "i", "r", "-", "a">>
    [] s = "a" -> <<"a">>
    [] s = "b" -> <<"b">>
    [] s = "d" -> <<"d">>
    [] s = "mod." -> <<"m", "o", "d", ".">>
    [] s = "0.1" -> <<"0", ".", "1">>
    [] s = "1.2" -> <<"1", ".", "2">>
    [] s = "v1" -> <<"v", "1">>
    [] s = "http://s1/index.html" -> <<"h", "t", "t", "p", ":", "/", "/", "s", "1", "/", "i", "n", "d", "e", "x", ".", "h", "t", "m", "l">>
    [] s = "http://s1/config.html#role-a" -> <<"h", "t", "t", "p", ":", "/", "/", "s", "1", "/", "c", "o", "n", "f", "i", "g", ".", "h", "t", "m", "l", "#", "r", "o", "l", "e", "-", "a">>
    [] s = "http://s1/config.html#dir-a" -> <<"h", "t", "t", "p", ":", "/", "/", "s", "1", "/", "c", "o", "n", "f", "i", "g", ".", "h", "t", "m", "l", "#", "d", "i", "r", "-", "a">>
    [] s = "http://s1/domains.html#role-a" -> <<"h", "t", "t", "p", ":", "/", "/", "s", "1", "/", "d", "o", "m", "a", "i", "n", "s", ".", "h", "t", "m", "l", "#", "r", "o", "l", "e", "-", "a">>
    [] s = "http://s1/domains.html#dir-a" -> <<"h", "t", "t", "p", ":", "/", "/", "s", "1", "/", "d", "o", "m", "a", "i", "n", "s", ".", "h", "t", "m", "l", "#", "d", "i", "r", "-", "a">>
    [] s = "He said \"hi\"" -> <<"H", "e", " ", "s", "a", "i", "d", " ", "\"", "h", "i", "\"">>
    [] s = "metadata/my_note" -> <<"m", "e", "t", "a", "d", "a", "t", "a", "/", "m", "y", "_", "n", "o", "t", "e">>
    [] s = "data*" -> <<"d", "a", "t", "a", "*">>
    [] s = "metadata*" -> <<"m", "e", "t", "a", "d", "a", "t", "a", "*">>
    [] s = "csv" -> <<"c", "s", "v">>
    [] s = "html:tmprefs" -> <<"h", "t", "m", "l", ":", "t", "m", "p", "r", "e", "f", "s">>
    [] s = "list" -> <<"l", "i", "s", "t">>
    [] s = "all" -> <<"a", "l", "l">>
    [] s = "listplain" -> <<"l", "i", "s", "t", "p", "l", "a", "i", "n">>
    [] s = "xml" -> <<"x", "m", "l">>
    [] s = "csv:xml" -> <<"c", "s", "v", ":", "x", "m", "l">>

\* str.lower() of one character, for re.IGNORECASE.
Lower(c) ==
  CASE c = "A" -> "a" [] c = "B" -> "b" [] c = "C" -> "c" [] c = "D" -> "d"
    [] c = "E" -> "e" [] c = "F" -> "f" [] c = "G" -> "g" [] c = "H" -> "h"
    [] c = "I" -> "i" [] c = "J" -> "j" [] c = "K" -> "k" [] c = "L" -> "l"
    [] c = "M" -> "m" [] c = "N" -> "n" [] c = "O" -> "o" [] c = "P" -> "p"
    [] c = "Q" -> "q" [] c = "R" -> "r" [] c = "S" -> "s" [] c = "T" -> "t"
    [] c = "U" -> "u" [] c = "V" -> "v" [] c = "W" -> "w" [] c = "X" -> "x"
    [] c = "Y" -> "y" [] c = "Z" -> "z" [] OTHER -> c

\* c in s, for a one-character c.
HasChar(s, c) == \E i \in 1..Len(Chars(s)) : Chars(s)[i] = c

\* ''.join(cs), from the i-th character on.
RECURSIVE Joined(_, _)
Joined(cs, i) == IF i > Len(cs) THEN "" ELSE cs[i] \o Joined(cs, i + 1)

----------------------------------------------------------------------------
(* Values.  A stored value is a scalar (an atom) or a list of atoms; an    *)
(* atom is None, a string, an integer, or a reference to an Entry or a     *)
(* Database instance.                                                      *)

NoneA == [t |-> "none", s |-> "", n |-> 0]
StrA(s) == [t |-> "str", s |-> s, n |-> 0]
IntA(n) == [t |-> "int", s |-> "", n |-> n]
EntA(i) == [t |-> "entry", s |-> "", n |-> i]
ObjA(i) == [t |-> "db", s |-> "", n |-> i]

ScalarV(a) == [isList |-> FALSE, a |-> a, l |-> <<>>]
ListV(l) == [isList |-> TRUE, a |-> NoneA, l |-> l]
NoneV == ScalarV(NoneA)

\* A list of strings, as a value.
StrListV(ks) == ListV([i \in 1..Len(ks) |-> StrA(ks[i])])

----------------------------------------------------------------------------
(* dict: an insertion-ordered mapping, kept as a sequence of [k, v].       *)

DictHas(c, k) == \E i \in 1..Len(c) : c[i].k = k

DictGet(c, k) == c[CHOOSE i \in 1..Len(c) : c[i].k = k].v

\* c[k] = v: an existing key keeps its place, a new key goes last.
DictPut(c, k, v) ==
    IF DictHas(c, k)
    THEN [i \in 1..Len(c) |-> IF c[i].k = k THEN [k |-> k, v |-> v] ELSE c[i]]
    ELSE Append(c, [k |-> k, v |-> v])

\* list(c.keys())
DictKeys(c) == [i \in 1..Len(c) |-> c[i].k]

\* x in xs, for a list of strings.
InList(xs, x) == \E i \in 1..Len(xs) : xs[i] = x

----------------------------------------------------------------------------
(* What a call left behind: op and arguments, the exception it raised      *)
(* ("" when it returned), the value it returned, and whether the call did  *)
(* the work it may skip: for a constructor, whether __new__ allocated a    *)
(* new instance; for initialize(), whether it ran the extraction.          *)

Ret(op, d, arg, exc, val, fresh) ==
    [op |-> op, d |-> d, arg |-> arg, exc |-> exc, val |-> val, fresh |-> fresh]

Returned(op, d, arg, val) == Ret(op, d, arg, "", val, FALSE)

Raised(op, d, arg, exc) == Ret(op, d, arg, exc, NoneV, FALSE)

----------------------------------------------------------------------------
(* Entry: the flyweight of src/data.py, lines 772-842.                      *)

\* The primary_type every Entry of the program is built with.
PrimaryType == "id"

\* Entry.__new__ followed by Entry.__init__ on the object __new__ returned.
\* __new__ looks the cache up under items[primary_type]; __init__ registers
\* a new object under primary_type.  The result is the heap, the cache, the
\* index of the returned object and whether it is a new one.
EntryConstruct(items, primary_type, heap, cache) ==
    IF items[primary_type] \notin DOMAIN cache
    THEN \* a new object: it has no 'items' attribute, __init__ sets it up
         [heap  |-> Append(heap, [items |-> items, primary_type |-> primary_type]),
          cache |-> [k \in (DOMAIN cache) \cup {primary_type} |->
                        IF k = primary_type THEN Len(heap) + 1 ELSE cache[k]],
          obj   |-> Len(heap) + 1,
          fresh |-> TRUE]
    ELSE \* the cached object: hasattr(self, 'items') holds, __init__ returns
         [heap  |-> heap,
          cache |-> cache,
          obj   |-> cache[items[primary_type]],
          fresh |-> FALSE]

\* Entry.__eq__: the values under self.primary_type are equal.
EntryEq(heap, i, j) ==
    heap[i].items[heap[i].primary_type] = heap[j].items[heap[i].primary_type]

----------------------------------------------------------------------------
(* DataExtractor.get_defs, src/data.py lines 645-759.  A page is what the  *)
(* extractor reads at its url: unreadable, or a tree whose definition      *)
(* lists (dl) hold terms (dt) and at most one description block (dd).      *)
(* A dt has an id, tt children (class and text) and possibly an anchor.    *)

NoAnchor == [has |-> FALSE, hasHref |-> FALSE, href |-> ""]
Anchor(href) == [has |-> TRUE, hasHref |-> TRUE, href |-> href]
\* An a element without an href attribute: dt_link.get('href') is None.
AnchorNoHref == [has |-> TRUE, hasHref |-> FALSE, href |-> ""]
Tt(class, text) == [class |-> class, text |-> text]
Dt(id, tts, a) == [id |-> id, tts |-> tts, a |-> a]
NoDd == [has |-> FALSE, text |-> ""]
Dd(text) == [has |-> TRUE, text |-> text]
Dl(class, dts, dd) == [class |-> class, dts |-> dts, dd |-> dd]
Page(dls) == [readable |-> TRUE, dls |-> dls]

\* The value the loop over tts leaves in tt_name / tt_classname: the text of
\* the last tt of that class, '' when there is none.
RECURSIVE TtText(_, _, _)
TtText(tts, class, i) ==
    IF i = 0 THEN ""
    ELSE IF tts[i].class = class THEN tts[i].text
    ELSE TtText(tts, class, i - 1)

\* str(last_dt.findtext('./tt')): the text of the first tt child, 'None'
\* when the dt has no tt.
FirstTtText(dt) == IF Len(dt.tts) = 0 THEN "None" ELSE dt.tts[1].text

\* entries[dl_class].append(entry), or entries[dl_class] = [entry]
AddEntry(entries, dl_class, e) ==
    IF DictHas(entries, dl_class)
    THEN DictPut(entries, dl_class, Append(DictGet(entries, dl_class), e))
    ELSE DictPut(entries, dl_class, <<e>>)

\* dt_link: the term's own anchor, or the last link found.
DtLink(dt, url, last_link) ==
    IF dt.a.has THEN url \o dt.a.href ELSE last_link

\* desc at the i-th dt: the text of the dd for the last dt of the list (''
\* without a dd), else the 'see <name>' text set before the loop.
DtDesc(dl, i, seeDesc) ==
    IF i = Len(dl.dts)
    THEN (IF dl.dd.has THEN dl.dd.text ELSE "")
    ELSE seeDesc

\* \d
IsDigit(c) == c \in {"0", "1", "2", "3", "4", "5", "6", "7", "8", "9"}

\* \d+ from position i: the position after the longest run of digits.
RECURSIVE DigitsEnd(_, _)
DigitsEnd(cs, i) ==
    IF i <= Len(cs) /\ IsDigit(cs[i]) THEN DigitsEnd(cs, i + 1) ELSE i

\* \d+\.\d+ from position i, where the first run of digits ends before e1:
\* the position after the match, 0 when there is none.
VersionEnd(cs, i, e1) ==
    IF e1 > i /\ e1 <= Len(cs) /\ cs[e1] = "." /\ DigitsEnd(cs, e1 + 1) > e1 + 1
    THEN DigitsEnd(cs, e1 + 1)
    ELSE 0

\* The literal text lit (in lower case) at position i, under re.IGNORECASE.
LiteralAt(lit, cs, i) ==
    /\ i + Len(lit) - 1 <= Len(cs)
    /\ \A k \in 1..Len(lit) : Lower(cs[i + k - 1]) = lit[k]

\* re.search of lit followed by the group (\d+\.\d+), from position i on:
\* whether there is a match, and the group of the first one.
RECURSIVE SearchVersion(_, _, _)

\* The outcome at position i, where lit was found and the group ends before
\* e (0: no group follows lit here).
VersionFound(lit, cs, i, e) ==
    IF e > 0
    THEN [found |-> TRUE, version |-> Joined(SubSeq(cs, i + Len(lit), e - 1), 1)]
    ELSE SearchVersion(lit, cs, i + 1)

SearchVersion(lit, cs, i) ==
    IF i > Len(cs) THEN [found |-> FALSE, version |-> ""]
    ELSE IF LiteralAt(lit, cs, i)
    THEN VersionFound(lit, cs, i,
                      VersionEnd(cs, i + Len(lit), DigitsEnd(cs, i + Len(lit))))
    ELSE SearchVersion(lit, cs, i + 1)

\* The literal parts of DataExtractor.SINCE_REGEX and DEPRECATED_REGEX.
SINCE_REGEX ==
    <<"n", "e", "w", " ", "i", "n", " ", "v", "e", "r", "s", "i", "o", "n", " ">>
DEPRECATED_REGEX ==
    <<"d", "e", "p", "r", "e", "c", "a", "t", "e", "d", " ", "s", "i", "n", "c", "e",
      " ", "v", "e", "r", "s", "i", "o", "n", " ">>

\* mat.groupdict()['version'] if mat, else the value set before the search.
GroupOr(mat, default) == IF mat.found THEN mat.version ELSE default

\* since without the search: always the default.
Since_Default(desc) == "0.1"

\* since: '0.1' unless SINCE_REGEX is found in desc.
Since(desc) == GroupOr(SearchVersion(SINCE_REGEX, Chars(desc), 1), "0.1")

\* depr: '' unless DEPRECATED_REGEX is found in desc.
Deprecated(desc) == GroupOr(SearchVersion(DEPRECATED_REGEX, Chars(desc), 1), "")

\* The items of the Entry of one dt.
DtItems(dt, desc, dt_link) ==
    [id          |-> dt.id,
     name        |-> TtText(dt.tts, "descname", Len(dt.tts)),
     classname   |-> TtText(dt.tts, "descclassname", Len(dt.tts)),
     description |-> desc,
     since       |-> Since(desc),
     deprecated  |-> Deprecated(desc),
     link        |-> dt_link]

\* The end of one iteration: the Entry made is filed under the dl's class.
\* st carries entries, last_link, the Entry heap and the Entry cache, and the
\* exception that left the loops ("" when there is none).
DtFiled(st, dl_class, dt_link, made) ==
    [entries   |-> AddEntry(st.entries, dl_class, made.obj),
     last_link |-> dt_link,
     heap      |-> made.heap,
     cache     |-> made.cache,
     exc       |-> ""]

\* One iteration of the loop over the dts of a dl.  For an anchor without an
\* href, self.url + dt_link.get('href') adds None to a string: TypeError.
DtStep(dl, i, seeDesc, st, dt_link) ==
    IF dl.dts[i].a.has /\ ~dl.dts[i].a.hasHref
    THEN [st EXCEPT !.exc = "TypeError"]
    ELSE DtFiled(st, dl.class, dt_link,
                 EntryConstruct(DtItems(dl.dts[i], DtDesc(dl, i, seeDesc), dt_link),
                                PrimaryType, st.heap, st.cache))

\* for i in range(0, dtslen): one Entry per dt.  Nothing in get_defs catches
\* an exception, so one ends the loops.
RECURSIVE DtLoop(_, _, _, _, _)
DtLoop(dl, i, url, seeDesc, st) ==
    IF i > Len(dl.dts) \/ st.exc # "" THEN st
    ELSE DtLoop(dl, i + 1, url, seeDesc,
                DtStep(dl, i, seeDesc, st, DtLink(dl.dts[i], url, st.last_link)))

\* desc = 'see %s' % str(last_dt_tt_name), for a dl of more than one dt.
SeeDesc(dl) ==
    IF Len(dl.dts) > 1 THEN "see " \o FirstTtText(dl.dts[Len(dl.dts)]) ELSE ""

\* for dl in dls
RECURSIVE DlLoop(_, _, _, _)
DlLoop(dls, j, url, st) ==
    IF j > Len(dls) \/ st.exc # "" THEN st
    ELSE DlLoop(dls, j + 1, url, DtLoop(dls[j], 1, url, SeeDesc(dls[j]), st))

\* return entries, or the exception that left the loops
DefsReturned(st) ==
    [exc   |-> st.exc,
     defs  |-> IF st.exc = "" THEN st.entries ELSE <<>>,
     heap  |-> st.heap,
     cache |-> st.cache]

\* get_defs of the extractor built for url, reading page.  exc names the
\* exception raised ("" when the mapping is returned); defs maps each dl
\* class to the list of Entry instances, in order of first appearance.
get_defs(page, url, heap, cache) ==
    IF ~page.readable
    THEN [exc |-> "IOError", defs |-> <<>>, heap |-> heap, cache |-> cache]
    ELSE DefsReturned(DlLoop(page.dls, 1, url,
                             [entries |-> <<>>, last_link |-> "",
                              heap |-> heap, cache |-> cache, exc |-> ""]))

\* The pages a site may serve.
DtRoleA == Dt("role-a", <<Tt("descname", "a")>>, Anchor("#role-a"))
DtRoleB == Dt("role-b", <<Tt("descclassname", "mod."), Tt("descname", "b")>>, NoAnchor)
DtDirA == Dt("dir-a", <<Tt("descname", "d")>>, Anchor("#dir-a"))
DtId == Dt("id", <<Tt("descname", "i")>>, NoAnchor)

PageBad == [readable |-> FALSE, dls |-> <<>>]
PageEmpty == Page(<<>>)
PageRoles == Page(<<Dl("role", <<DtRoleA, DtRoleB>>, Dd("A role."))>>)
PageMixed == Page(<<Dl("role", <<DtRoleA>>, Dd("One.")),
                    Dl("directive", <<DtDirA>>, NoDd)>>)
PageDup == Page(<<Dl("role", <<DtRoleA>>, Dd("One.")),
                  Dl("role", <<DtRoleA>>, Dd("Again."))>>)
PageId == Page(<<Dl("role", <<DtId>>, Dd("Odd."))>>)

\* A directive without an anchor, a term whose id is 'id' with an anchor, and
\* a term whose anchor has no href.
DtDirB == Dt("dir-b", <<Tt("descname", "g")>>, NoAnchor)
DtIdA == Dt("id", <<Tt("descname", "i")>>, Anchor("#id"))
DtBare == Dt("role-e", <<Tt("descname", "e")>>, AnchorNoHref)

\* Version markers, and a list that inherits the link of an earlier list.
PageCross ==
    Page(<<Dl("role", <<DtRoleA>>, Dd("New in version 1.4. Some details.")),
           Dl("directive", <<DtDirB>>,
              Dd("new in VERSION 2.0 and New in version 1.1; Deprecated since version 3.0"))>>)
\* No anchor at all, and a marker without a version.
PageNoAnchor == Page(<<Dl("role", <<DtRoleB>>, Dd("New in version 1. x"))>>)
PageIdA == Page(<<Dl("role", <<DtRoleA>>, Dd("One.")),
                  Dl("role", <<DtIdA>>, Dd("Odd."))>>)
\* A term that cannot be extracted, between two that can.
PageBare == Page(<<Dl("role", <<DtRoleA, DtBare, DtRoleB>>, Dd("A role."))>>)

\* A description with quotes in it.
PageQuote == Page(<<Dl("role", <<DtRoleA, DtRoleB>>, Dd("He said \"hi\""))>>)

Pages == {PageBad, PageRoles, PageMixed}

----------------------------------------------------------------------------
(* Database: the flyweight of src/data.py, lines 845-948.                   *)

\* The attributes Database.__init__ sets on a store for site_url.
NewDatabase(site_url) ==
    [site_url      |-> site_url,
     contents      |-> <<>>,
     epaths        |-> <<>>,
     total_entries |-> -1,
     initialized   |-> FALSE]

\* A registration that keeps the store registered first for the url.
Register_First(cache, site_url, obj) ==
    IF cache[site_url] # 0 THEN cache ELSE [cache EXCEPT ![site_url] = obj]

\* cache[site_url] = obj
Register(cache, site_url, obj) == [cache EXCEPT ![site_url] = obj]

\* A constructor whose __new__ never looks at the cache.
DatabaseConstruct_AlwaysNew(site_url, use_cached, heap, cache) ==
    [heap  |-> Append(heap, NewDatabase(site_url)),
     cache |-> Register(cache, site_url, Len(heap) + 1),
     obj   |-> Len(heap) + 1,
     fresh |-> TRUE]

\* A constructor whose __init__ never runs again on a cached object.
DatabaseConstruct_InitOnce(site_url, use_cached, heap, cache) ==
    IF cache[site_url] = 0 \/ ~use_cached
    THEN [heap  |-> Append(heap, NewDatabase(site_url)),
          cache |-> Register(cache, site_url, Len(heap) + 1),
          obj   |-> Len(heap) + 1,
          fresh |-> TRUE]
    ELSE [heap |-> heap, cache |-> cache, obj |-> cache[site_url], fresh |-> FALSE]

\* Database.__new__ followed by Database.__init__ on the object __new__
\* returned.  The result is the heap, the cache, the index of the returned
\* object and whether __new__ allocated it.
DatabaseConstruct(site_url, use_cached, heap, cache) ==
    LET obj == cache[site_url]
    IN  IF obj = 0 \/ ~use_cached
        THEN \* a new object: it has no 'initialized' attribute
             [heap  |-> Append(heap, NewDatabase(site_url)),
              cache |-> Register(cache, site_url, Len(heap) + 1),
              obj   |-> Len(heap) + 1,
              fresh |-> TRUE]
        ELSE IF heap[obj].initialized
        THEN \* __init__ returns at once
             [heap |-> heap, cache |-> cache, obj |-> obj, fresh |-> FALSE]
        ELSE \* __init__ runs again on the cached, uninitialized object
             [heap  |-> [heap EXCEPT ![obj] = NewDatabase(site_url)],
              cache |-> Register(cache, site_url, obj),
              obj   |-> obj,
              fresh |-> FALSE]

\* Database.__getitem__: the value, or KeyError.
getitem(db, key) ==
    IF DictHas(db.contents, key)
    THEN [exc |-> "", val |-> DictGet(db.contents, key)]
    ELSE [exc |-> "KeyError", val |-> NoneV]

\* Database.__setitem__
setitem(db, key, value) == [db EXCEPT !.contents = DictPut(db.contents, key, value)]

\* Database.keys
keys(db) == DictKeys(db.contents)

----------------------------------------------------------------------------
(* SphinxDatabase: src/data.py, lines 951-1190.                             *)

\* The characters of epath before its first '/': all of them when there is
\* none.
RECURSIVE FirstComponent(_, _)
FirstComponent(cs, i) ==
    IF i > Len(cs) \/ cs[i] = "/" THEN <<>>
    ELSE <<cs[i]>> \o FirstComponent(cs, i + 1)

\* primary_type: epath.split("/")[0]
primary_type(epath) == Joined(FirstComponent(Chars(epath), 1), 1)

\* get_epaths without its state check.
get_epaths_Unchecked(db) == [exc |-> "", val |-> db.epaths]

\* get_epaths that lists the keys stored now.
get_epaths_Live(db) ==
    IF ~db.initialized
    THEN [exc |-> "InvalidStateError", val |-> <<>>]
    ELSE [exc |-> "", val |-> keys(db)]

\* get_epaths: the key list initialize() recorded, or InvalidStateError.
get_epaths(db) ==
    IF ~db.initialized
    THEN [exc |-> "InvalidStateError", val |-> <<>>]
    ELSE [exc |-> "", val |-> db.epaths]

\* re.match(re.compile(epath.replace('?', '.').replace('*', '.*?'),
\* re.IGNORECASE), ep): can the pattern p, from its i-th character on, match
\* a run of s that starts at position j.  '*' has become '.*?', any run of
\* characters; '?' has become '.', any one character, and so does a '.' of
\* epath itself; every other character of the model's strings stands for
\* itself, compared without case.  re.match does not anchor the end.
RECURSIVE MatchFrom(_, _, _, _)
MatchFrom(p, i, s, j) ==
    IF i > Len(p) THEN TRUE
    ELSE IF p[i] = "*"
    THEN \E k \in j..(Len(s) + 1) : MatchFrom(p, i + 1, s, k)
    ELSE IF p[i] = "?" \/ p[i] = "."
    THEN j <= Len(s) /\ MatchFrom(p, i + 1, s, j + 1)
    ELSE j <= Len(s) /\ Lower(p[i]) = Lower(s[j]) /\ MatchFrom(p, i + 1, s, j + 1)

\* The match of a pattern compiled without re.IGNORECASE.
RECURSIVE MatchFromCased(_, _, _, _)
MatchFromCased(p, i, s, j) ==
    IF i > Len(p) THEN TRUE
    ELSE IF p[i] = "*"
    THEN \E k \in j..(Len(s) + 1) : MatchFromCased(p, i + 1, s, k)
    ELSE IF p[i] = "?" \/ p[i] = "."
    THEN j <= Len(s) /\ MatchFromCased(p, i + 1, s, j + 1)
    ELSE j <= Len(s) /\ p[i] = s[j] /\ MatchFromCased(p, i + 1, s, j + 1)

ReMatch_CaseSensitive(epath, ep) == MatchFromCased(Chars(epath), 1, Chars(ep), 1)

ReMatch(epath, ep) == MatchFrom(Chars(epath), 1, Chars(ep), 1)

\* The loop of expand_epath: the epaths the pattern matches, in their order.
RECURSIVE FilterEpaths(_, _, _)
FilterEpaths(epath, epaths, i) ==
    IF i > Len(epaths) THEN <<>>
    ELSE IF ReMatch(epath, epaths[i])
    THEN <<epaths[i]>> \o FilterEpaths(epath, epaths, i + 1)
    ELSE FilterEpaths(epath, epaths, i + 1)

\* expand_epath whose basic check asks the contents, not get_epaths().
expand_epath_Contents(db, epath) ==
    IF ~db.initialized THEN [exc |-> "InvalidStateError", val |-> <<>>]
    ELSE IF HasChar(epath, "*") \/ HasChar(epath, "?")
    THEN [exc |-> "", val |-> FilterEpaths(epath, db.epaths, 1)]
    ELSE IF DictHas(db.contents, epath)
    THEN [exc |-> "", val |-> <<epath>>]
    ELSE [exc |-> "ValueError", val |-> <<>>]

\* expand_epath: the list of matching epaths, or the exception raised.
expand_epath(db, epath) ==
    LET eps == get_epaths(db)
    IN  IF eps.exc # "" THEN [exc |-> eps.exc, val |-> <<>>]
        ELSE IF HasChar(epath, "*") \/ HasChar(epath, "?")
        THEN [exc |-> "", val |-> FilterEpaths(epath, eps.val, 1)]
        ELSE IF InList(eps.val, epath)
        THEN [exc |-> "", val |-> <<epath>>]
        ELSE [exc |-> "ValueError", val |-> <<>>]

\* The loop of get_data without its else branch: a value that is no list is
\* not appended.
RECURSIVE Collect_SkipScalars(_, _, _)
Collect_SkipScalars(db, fes, i) ==
    IF i > Len(fes) THEN <<>>
    ELSE (IF DictHas(db.contents, fes[i]) /\ DictGet(db.contents, fes[i]).isList
          THEN DictGet(db.contents, fes[i]).l
          ELSE <<>>) \o Collect_SkipScalars(db, fes, i + 1)

\* The loop of get_data over more than one matched epath: a list value is
\* spliced in, any other value is appended, a missing key appends None.
RECURSIVE Collect(_, _, _)
Collect(db, fes, i) ==
    IF i > Len(fes) THEN <<>>
    ELSE
      LET cur == getitem(db, fes[i])
      IN  (IF cur.exc = "KeyError" THEN <<NoneA>>
           ELSE IF cur.val.isList THEN cur.val.l
           ELSE <<cur.val.a>>) \o Collect(db, fes, i + 1)

\* get_data.  epath is an atom: None or a string.
get_data(db, epath) ==
    IF epath.t # "str"
    THEN \* not isinstance(epath, str)
         [exc |-> "TypeError", val |-> NoneV]
    ELSE
      LET fes == expand_epath(db, epath.s)
      IN  IF fes.exc # "" THEN [exc |-> fes.exc, val |-> NoneV]
          ELSE IF Len(fes.val) > 1
          THEN [exc |-> "", val |-> ListV(Collect(db, fes.val, 1))]
          ELSE IF DictHas(db.contents, epath.s)
          THEN [exc |-> "", val |-> DictGet(db.contents, epath.s)]
          ELSE \* except KeyError: return None
               [exc |-> "", val |-> NoneV]

\* SphinxDatabase.REGISTRY['links']: the first pages of the list.
Links == <<"config.html", "domains.html", "builders.html", "markup/inline.html">>

KeySiteUrl == "metadata/sphinx/site_url"
KeyVersion == "metadata/sphinx/version"
KeyTotal == "metadata/stats/total_entries"

\* x in cur_entries, for an Entry x and a list of atoms: some element is x
\* itself or is equal to it by Entry.__eq__.
InEntries(heap, cur, x) ==
    \E i \in 1..Len(cur) :
        cur[i].t = "entry" /\ (cur[i].n = x \/ EntryEq(heap, cur[i].n, x))

\* unique_entries: the entries of es that are not in cur, in their order.
RECURSIVE UniqueEntries(_, _, _, _)
UniqueEntries(heap, cur, es, i) ==
    IF i > Len(es) THEN <<>>
    ELSE IF InEntries(heap, cur, es[i])
    THEN UniqueEntries(heap, cur, es, i + 1)
    ELSE <<EntA(es[i])>> \o UniqueEntries(heap, cur, es, i + 1)

\* 'data/type/' + _def
DataKey(_def) == "data/type/" \o _def

\* self[_key] += unique_entries; self.total_entries += len(unique_entries)
MergeInto(db, _key, cur_entries, unique_entries) ==
    [setitem(db, _key, ListV(cur_entries \o unique_entries))
        EXCEPT !.total_entries = @ + Len(unique_entries)]

\* self[_key] = _entries; self.total_entries += len(_entries)
StoreNew(db, _key, _entries) ==
    [setitem(db, _key, ListV([n \in 1..Len(_entries) |-> EntA(_entries[n])]))
        EXCEPT !.total_entries = @ + Len(_entries)]

\* for _def in defs: merge the lists of one page into the store.  A value
\* under data/type/<class> that is no list makes the membership test or the
\* += raise TypeError, which leaves initialize().
RECURSIVE MergeDefs(_, _, _, _)
MergeDefs(db, defs, i, heap) ==
    IF i > Len(defs) THEN [db |-> db, exc |-> ""]
    ELSE IF ~DictHas(db.contents, DataKey(defs[i].k))
    THEN MergeDefs(StoreNew(db, DataKey(defs[i].k), defs[i].v), defs, i + 1, heap)
    ELSE IF ~DictGet(db.contents, DataKey(defs[i].k)).isList
    THEN [db |-> db, exc |-> "TypeError"]
    ELSE MergeDefs(
           MergeInto(db, DataKey(defs[i].k),
                     DictGet(db.contents, DataKey(defs[i].k)).l,
                     UniqueEntries(heap, DictGet(db.contents, DataKey(defs[i].k)).l,
                                   defs[i].v, 1)),
           defs, i + 1, heap)

\* url = self.site_url + '/' + link
LinkUrl(db, i) == db.site_url \o "/" \o Links[i]

\* for link in links: extract the page of every link and merge it.  An
\* exception of get_defs or of the merge is none the try block catches, so
\* it leaves the loop and initialize().
RECURSIVE LinkLoop(_, _, _, _, _)

\* After the merge of the i-th page.
LinkMerged(pages, i, got, merged) ==
    IF merged.exc # ""
    THEN [db |-> merged.db, heap |-> got.heap, cache |-> got.cache,
          exc |-> merged.exc]
    ELSE LinkLoop(merged.db, pages, i + 1, got.heap, got.cache)

\* After get_defs of the i-th page.
LinkGot(db, pages, i, got) ==
    IF got.exc # ""
    THEN [db |-> db, heap |-> got.heap, cache |-> got.cache, exc |-> got.exc]
    ELSE LinkMerged(pages, i, got, MergeDefs(db, got.defs, 1, got.heap))

LinkLoop(db, pages, i, heap, cache) ==
    IF i > NumLinks
    THEN [db |-> db, heap |-> heap, cache |-> cache, exc |-> ""]
    ELSE LinkGot(db, pages, i, get_defs(pages[i], LinkUrl(db, i), heap, cache))

\* The two metadata keys and the running total, set before the loop.
WithMetadata(db, site) ==
    [setitem(setitem(db, KeySiteUrl, ScalarV(StrA(db.site_url \o "/index.html"))),
             KeyVersion, ScalarV(site.version))
        EXCEPT !.total_entries = 2]

\* The last increment of the total without the store under KeyTotal.
WithTotal_NotStored(db) == [db EXCEPT !.total_entries = @ + 1]

\* self.total_entries += 1; self[KeyTotal] = self.total_entries
WithTotal(db) ==
    setitem([db EXCEPT !.total_entries = @ + 1], KeyTotal,
            ScalarV(IntA(db.total_entries + 1)))

\* self.epaths = list(self.keys()); self.initialized = True
Finished(db) == [db EXCEPT !.epaths = keys(db), !.initialized = TRUE]

\* The end of an initialize() that records the total and the key list and
\* sets the flag whether or not the loop over the links was left early.
AfterLinks_Always(loop) ==
    [db    |-> Finished(WithTotal(loop.db)),
     heap  |-> loop.heap,
     cache |-> loop.cache,
     exc   |-> loop.exc,
     ran   |-> TRUE]

\* The end of initialize(), after the loop over the links: an exception
\* leaves the store as the loop left it, else the total and the key list are
\* recorded and the store is initialized.
AfterLinks(loop) ==
    [db    |-> IF loop.exc # "" THEN loop.db ELSE Finished(WithTotal(loop.db)),
     heap  |-> loop.heap,
     cache |-> loop.cache,
     exc   |-> loop.exc,
     ran   |-> TRUE]

\* initialize() without the 'if not self.initialized' test.
initialize_Unguarded(db, site, heap, cache) ==
    IF ~site.indexReadable
    THEN [db |-> db, heap |-> heap, cache |-> cache, exc |-> "IOError", ran |-> TRUE]
    ELSE AfterLinks(LinkLoop(WithMetadata(db, site), site.pages, 1, heap, cache))

\* initialize().  site is what the site serves during the call: whether its
\* index page can be read, the version found there, and the page of every
\* link.  The result is the store, the Entry heap and cache, the exception
\* that left initialize() ("" when it returned) and whether the call entered
\* the 'if not self.initialized' block.
initialize(db, site, heap, cache) ==
    IF db.initialized
    THEN [db |-> db, heap |-> heap, cache |-> cache, exc |-> "", ran |-> FALSE]
    ELSE IF ~site.indexReadable
    THEN \* get_sphinx_version raises before anything is stored
         [db |-> db, heap |-> heap, cache |-> cache, exc |-> "IOError", ran |-> TRUE]
    ELSE AfterLinks(LinkLoop(WithMetadata(db, site), site.pages, 1, heap, cache))

\* SphinxDatabase.write, as far as the store decides it: the state check and
\* the choice of the writer.  The files belong to the writers.
VALID_WRITE_FORMATS == {"csv", "html", "tmprefs"}

write(db, format) ==
    IF ~db.initialized THEN [exc |-> "InvalidStateError", val |-> NoneV]
    ELSE IF format \notin VALID_WRITE_FORMATS THEN [exc |-> "ValueError", val |-> NoneV]
    ELSE [exc |-> "", val |-> NoneV]

----------------------------------------------------------------------------
(* CSVWriter: src/data.py, lines 280-402.  Text is kept as a sequence of   *)
(* characters; a file is the text written to it.  A writer is its _header, *)
(* its _num_written_files, the files its output directory holds (empty     *)
(* when the writer is built) and the exception that left it.               *)

\* sep.join(parts), from the i-th part on.
RECURSIVE Join(_, _, _)
Join(sep, parts, i) ==
    IF i > Len(parts) THEN <<>>
    ELSE IF i = Len(parts) THEN parts[i]
    ELSE parts[i] \o sep \o Join(sep, parts, i + 1)

\* cs.split(sep) for a one-character sep, from position i on; cur is the
\* part begun.
RECURSIVE Split(_, _, _, _)
Split(cs, sep, i, cur) ==
    IF i > Len(cs) THEN <<cur>>
    ELSE IF cs[i] = sep THEN <<cur>> \o Split(cs, sep, i + 1, <<>>)
    ELSE Split(cs, sep, i + 1, Append(cur, cs[i]))

\* cs.replace(old, new) for a one-character old, from position i on.
RECURSIVE Replace(_, _, _, _)
Replace(cs, old, new, i) ==
    IF i > Len(cs) THEN <<>>
    ELSE (IF cs[i] = old THEN new ELSE <<cs[i]>>) \o Replace(cs, old, new, i + 1)

\* str(n) for a natural number n.
RECURSIVE IntStr(_)
IntStr(n) ==
    IF n < 10
    THEN <<<<"0", "1", "2", "3", "4", "5", "6", "7", "8", "9">>[n + 1]>>
    ELSE IntStr(n \div 10) \o IntStr(n % 10)

\* (http|https|ftp|file), in the order the alternatives are tried.
Schemes ==
    <<<<"h", "t", "t", "p">>, <<"h", "t", "t", "p", "s">>, <<"f", "t", "p">>,
      <<"f", "i", "l", "e">>>>

\* The alternatives with which ((http|https|ftp|file)://.+) matches at
\* position i: the scheme, '://' and at least one character of the line.
SchemesAt(cs, i) ==
    {n \in 1..Len(Schemes) :
        /\ i + Len(Schemes[n]) + 3 <= Len(cs)
        /\ SubSeq(cs, i, i + Len(Schemes[n]) + 2) = Schemes[n] \o <<":", "/", "/">>
        /\ cs[i + Len(Schemes[n]) + 3] # "\n"}

\* The position of the last character of the line that holds position i.
RECURSIVE LineEnd(_, _)
LineEnd(cs, i) ==
    IF i = Len(cs) \/ cs[i + 1] = "\n" THEN i ELSE LineEnd(cs, i + 1)

\* utils.linkify: re.sub(r'((http|https|ftp|file)://.+)',
\* '<a href="\1">\2</a>', text), from position i on.  Group 1 is the match
\* to the end of the line, group 2 is the scheme.
RECURSIVE linkify(_, _)
linkify(cs, i) ==
    IF i > Len(cs) THEN <<>>
    ELSE IF SchemesAt(cs, i) = {} THEN <<cs[i]>> \o linkify(cs, i + 1)
    ELSE <<"<", "a", " ", "h", "r", "e", "f", "=", "\"">>
         \o SubSeq(cs, i, LineEnd(cs, i)) \o <<"\"", ">">>
         \o Schemes[CHOOSE n \in SchemesAt(cs, i) : \A m \in SchemesAt(cs, i) : n <= m]
         \o <<"<", "/", "a", ">">>
         \o linkify(cs, LineEnd(cs, i) + 1)

\* self.colsep, self.rowsep (os.linesep) and self.empty_value
colsep == <<",">>
rowsep == <<"\n">>
empty_value == <<>>

\* CSVWriter(database, outdir)
NewCSVWriter == [header |-> <<"name", "value">>, num |-> 0, files |-> <<>>, exc |-> ""]

\* _sanitize_data without the doubling of the quotes.
_sanitize_data_Wrapped(value) == <<"\"">> \o value \o <<"\"">>

\* _sanitize_data: value.replace('"', '""'), wrapped in quotes.
_sanitize_data(value) ==
    <<"\"">> \o Replace(value, "\"", <<"\"", "\"">>, 1) \o <<"\"">>

\* _sanitize_epaths: does it raise ValueError.
_sanitize_epaths(epaths, ptype) ==
    \E i \in 1..Len(epaths) : primary_type(epaths[i]) # ptype

\* epath.split('/')[1:]
Comps(epath) == Tail(Split(Chars(epath), "/", 1, <<>>))

\* str(data) for the data of a key that is no list: '' for None (data =
\* self.empty_value), the string itself, the digits of an integer.
StrOf(a) ==
    CASE a.t = "none" -> empty_value
      [] a.t = "str" -> Chars(a.s)
      [] a.t = "int" -> IntStr(a.n)

\* The row of a value that is no list: name, colsep, value.
ScalarRow(epath, a) ==
    Replace(Join(<<" ", "»", " ">>, Comps(epath), 1), "_", <<" ">>, 1)
       \o colsep \o linkify(StrOf(a), 1)

\* The keys of the items of an Entry that get_defs built, in the order of
\* its dict.
EntryColumns ==
    <<"id", "name", "classname", "description", "since", "deprecated", "link">>

\* curdata after the loop over the columns, from the i-th column on: every
\* value sanitized and followed by colsep ('' for a value that is false).
RECURSIVE Cells(_, _, _)
Cells(items, columns, i) ==
    IF i > Len(columns) THEN <<>>
    ELSE _sanitize_data(IF items[columns[i]] = "" THEN empty_value
                        ELSE Chars(items[columns[i]]))
         \o colsep \o Cells(items, columns, i + 1)

\* The row of one item: curdata[:-1]
ItemRow(items, columns) ==
    SubSeq(Cells(items, columns, 1), 1, Len(Cells(items, columns, 1)) - 1)

\* _data_to_csv for the data get_data(epath) returned: the rows, and
\* self._header after the call.
_data_to_csv(heap, header, epath, data) ==
    IF ~data.isList
    THEN [rows |-> <<ScalarRow(epath, data.a)>>, header |-> header]
    ELSE IF Len(data.l) = 0
    THEN [rows |-> <<>>, header |-> header]
    ELSE [rows   |-> <<Join(colsep, [c \in 1..Len(EntryColumns) |->
                                             Chars(EntryColumns[c])], 1)>>
                     \o [k \in 1..Len(data.l) |->
                            ItemRow(heap[data.l[k].n].items, EntryColumns)],
          header |-> EntryColumns]

\* write_encoded(fullpath, csvdata) and self._num_written_files += 1
Written(w, fname, rows) ==
    [w EXCEPT !.files = DictPut(w.files, fname, Join(rowsep, rows, 1)),
              !.num = @ + 1]

\* The loop of _handle_metadata over the epaths, from the i-th on, and the
\* write after it.
RECURSIVE MetadataLoop(_, _, _, _, _, _)

\* One epath of the loop, with what _data_to_csv gave for it.
MetadataStep(db, heap, w, epaths, i, rows, got) ==
    MetadataLoop(db, heap, [w EXCEPT !.header = got.header], epaths, i + 1,
                 rows \o got.rows)

MetadataLoop(db, heap, w, epaths, i, rows) ==
    IF i > Len(epaths) THEN Written(w, "metadata.csv", rows)
    ELSE MetadataStep(db, heap, w, epaths, i, rows,
                      _data_to_csv(heap, w.header, epaths[i],
                                   get_data(db, StrA(epaths[i])).val))

\* _handle_metadata(epath), where eps is what expand_epath(epath) gave:
\* nothing is written when an epath is not one of metadata; else the rows
\* begin with the header line, which ends with rowsep itself.
_handle_metadata(db, heap, w, eps) ==
    IF eps.exc # "" THEN [w EXCEPT !.exc = eps.exc]
    ELSE IF _sanitize_epaths(eps.val, "metadata") THEN w
    ELSE MetadataLoop(db, heap, w, eps.val, 1,
                      <<Join(colsep, [c \in 1..Len(w.header) |-> Chars(w.header[c])], 1)
                           \o rowsep>>)

\* The name of the file of a data epath: IndexError for an epath of one
\* component.
DataFile(comps) ==
    IF Len(comps) = 1 THEN Joined(comps[1], 1) \o ".csv"
    ELSE Joined(comps[1], 1) \o "-" \o Joined(comps[2], 1) \o ".csv"

\* The loop of _handle_data over the epaths, from the i-th on.
RECURSIVE DataLoop(_, _, _, _, _)

\* One epath of the loop, with what _data_to_csv gave for it.
DataStep(db, heap, w, epaths, i, got) ==
    IF Len(got.rows) = 0
    THEN DataLoop(db, heap, [w EXCEPT !.header = got.header], epaths, i + 1)
    ELSE IF Len(Comps(epaths[i])) = 0
    THEN [w EXCEPT !.header = got.header, !.exc = "IndexError"]
    ELSE DataLoop(db, heap,
                  Written([w EXCEPT !.header = got.header],
                          DataFile(Comps(epaths[i])), got.rows),
                  epaths, i + 1)

DataLoop(db, heap, w, epaths, i) ==
    IF i > Len(epaths) THEN w
    ELSE DataStep(db, heap, w, epaths, i,
                  _data_to_csv(heap, w.header, epaths[i],
                               get_data(db, StrA(epaths[i])).val))

\* _handle_data(epath), where eps is what expand_epath(epath) gave.
_handle_data(db, heap, w, eps) ==
    IF eps.exc # "" THEN [w EXCEPT !.exc = eps.exc]
    ELSE IF _sanitize_epaths(eps.val, "data") THEN w
    ELSE DataLoop(db, heap, w, eps.val, 1)

\* The loop of CSVWriter.write over the epaths, from the i-th on.
RECURSIVE WriteLoop(_, _, _, _, _)

\* After _handle_metadata of the i-th epath.
WriteData(db, heap, w, epaths, i) ==
    IF w.exc # "" THEN w
    ELSE WriteLoop(db, heap, _handle_data(db, heap, w, expand_epath(db, epaths[i])),
                   epaths, i + 1)

WriteLoop(db, heap, w, epaths, i) ==
    IF i > Len(epaths) \/ w.exc # "" THEN w
    ELSE WriteData(db, heap,
                   _handle_metadata(db, heap, w, expand_epath(db, epaths[i])),
                   epaths, i)

\* CSVWriter.write(epaths=None), where eps is what get_epaths() gave.
csv_write(db, heap, w, eps) ==
    IF eps.exc # "" THEN [w EXCEPT !.exc = eps.exc]
    ELSE WriteLoop(db, heap, w, eps.val, 1)

----------------------------------------------------------------------------
(* Writer, TextMateWriter, ListWriter and HTMLWriter: src/data.py, lines   *)
(* 78-90, 108-277 and 403-555.  Of a file of these writers the model keeps *)
(* the name and the key whose data went into it.  The templates of         *)
(* HTMLWriter are data files of the package; they are taken to render.     *)

\* check_database(database), called by Writer.__init__: the exception it
\* raises.
check_database(db) == IF db.initialized THEN "" ELSE "ValueError"

\* The epaths argument of write(): None, or a list of keys.
NoKeys == [given |-> FALSE, l |-> <<>>]
KeyList(l) == [given |-> TRUE, l |-> l]

\* write_encoded(os.path.join(self.outdir, fname), ...) and
\* num_written_files += 1
Filed(w, fname, from) ==
    [w EXCEPT !.files = DictPut(w.files, fname, from), !.num = @ + 1]

\* __append_entries(cur_data, settings): the exception that leaves it.
\* entry['description'] fails on what is no Entry, iteration fails on None
\* and on an integer, max(lines, key=len) fails when there are no lines.
append_entries(data) ==
    IF ~data.isList
    THEN IF data.a.t = "str" /\ data.a.s = "" THEN "ValueError" ELSE "TypeError"
    ELSE IF \E i \in 1..Len(data.l) : data.l[i].t # "entry" THEN "TypeError"
    ELSE IF Len(data.l) = 0 THEN "ValueError"
    ELSE ""

\* '-'.join(epath.split('/')[1:]) + fext
FileOf(epath, fext) == Joined(Join(<<"-">>, Comps(epath), 1), 1) \o fext

\* The loop of TextMateWriter.write and of ListWriter.write over the
\* epaths, from the i-th on.
RECURSIVE TextLoop(_, _, _, _)

\* One epath of the loop, with what get_data gave for it.
TextStep(db, w, epaths, i, got) ==
    IF got.exc # "" THEN [w EXCEPT !.exc = got.exc]
    ELSE IF append_entries(got.val) # "" THEN [w EXCEPT !.exc = append_entries(got.val)]
    ELSE TextLoop(db, Filed(w, FileOf(epaths[i], ".txt"), epaths[i]), epaths, i + 1)

TextLoop(db, w, epaths, i) ==
    IF i > Len(epaths) THEN w
    ELSE TextStep(db, w, epaths, i, get_data(db, StrA(epaths[i])))

\* TextMateWriter(db, outdir).write(epaths) and ListWriter(db,
\* outdir).write(epaths), whose files differ in their text: the writer
\* after the call, where defaults is what expand_epath('data*') gave.
text_write(db, arg, defaults) ==
    IF check_database(db) # ""
    THEN [num |-> 0, files |-> <<>>, exc |-> check_database(db)]
    ELSE IF Len(arg.l) > 0
    THEN TextLoop(db, [num |-> 0, files |-> <<>>, exc |-> ""], arg.l, 1)
    ELSE IF defaults.exc # ""
    THEN [num |-> 0, files |-> <<>>, exc |-> defaults.exc]
    ELSE TextLoop(db, [num |-> 0, files |-> <<>>, exc |-> ""], defaults.val, 1)

\* HTMLWriter.STATIC_FILES
STATIC_FILES ==
    <<"style.css", "jquery-1.4.3.min.js", "jquery.hotkeys.js", "jquery.isonscreen.js",
      "jquery.tablesorter.js", "scripts.js", "keybd_closed.png", "keybd_open.png">>

\* _copy_static_files, from the i-th file on, and
\* num_written_files += num_copied
RECURSIVE _copy_static_files(_, _)
_copy_static_files(w, i) ==
    IF i > Len(STATIC_FILES) THEN w
    ELSE _copy_static_files(Filed(w, STATIC_FILES[i], "htmlfiles"), i + 1)

\* not cur_data or len(str(cur_data)) == 0
NoData(v) ==
    IF v.isList THEN Len(v.l) = 0
    ELSE \/ v.a.t = "none"
         \/ v.a.t = "str" /\ v.a.s = ""
         \/ v.a.t = "int" /\ v.a.n = 0

\* The loop of HTMLWriter.write over data_epaths, from the i-th on, then
\* _write_index_file and _copy_static_files.
RECURSIVE HtmlLoop(_, _, _, _)

\* One epath of the loop, with what get_data gave for it.
HtmlStep(db, w, epaths, i, got) ==
    IF got.exc # "" THEN [w EXCEPT !.exc = got.exc]
    ELSE IF NoData(got.val) THEN HtmlLoop(db, w, epaths, i + 1)
    ELSE HtmlLoop(db, Filed(w, FileOf(epaths[i], ".html"), epaths[i]), epaths, i + 1)

HtmlLoop(db, w, epaths, i) ==
    IF i > Len(epaths) THEN _copy_static_files(Filed(w, "index.html", "index"), 1)
    ELSE HtmlStep(db, w, epaths, i, get_data(db, StrA(epaths[i])))

\* HTMLWriter(db, outdir).write(epaths): the constructor checks the store
\* and reads the version; write() needs a key list that is not empty and
\* then writes metadata.html and the files of expand_epath('data*'),
\* whatever the key list holds.
html_write(db, arg, data_epaths) ==
    IF check_database(db) # ""
    THEN [num |-> 0, files |-> <<>>, exc |-> check_database(db)]
    ELSE IF get_data(db, StrA(KeyVersion)).exc # ""
    THEN [num |-> 0, files |-> <<>>, exc |-> get_data(db, StrA(KeyVersion)).exc]
    ELSE IF Len(arg.l) = 0 /\ Len(get_epaths(db).val) = 0
    THEN [num |-> 0, files |-> <<>>, exc |-> "ValueError"]
    ELSE IF data_epaths.exc # ""
    THEN [num |-> 0, files |-> <<>>, exc |-> data_epaths.exc]
    ELSE HtmlLoop(db, Filed([num |-> 0, files |-> <<>>, exc |-> ""],
                            "metadata.html", "metadata*"),
                  data_epaths.val, 1)

\* CSVWriter(db, outdir): Writer.__init__ checks the store.
CSVWriter(db) == [NewCSVWriter EXCEPT !.exc = check_database(db)]

\* n calls of write(epaths) on the writer w.  write() iterates a list it is
\* given, the empty one too.
RECURSIVE csv_writes(_, _, _, _, _)
csv_writes(db, heap, w, arg, n) ==
    IF n = 0 \/ w.exc # "" THEN w
    ELSE csv_writes(db, heap,
                    csv_write(db, heap, w,
                              IF arg.given THEN [exc |-> "", val |-> arg.l]
                              ELSE get_epaths(db)),
                    arg, n - 1)

----------------------------------------------------------------------------
(* main(): src/main.py, lines 97-250.  args is what the argument parser    *)
(* gave; env is what the run meets: the interpreter, the answer of the     *)
(* site, the output directory, what the site serves and whether the user   *)
(* interrupts the extraction.  The siteurl is no file url and no epaths    *)
(* are given.                                                              *)

\* SphinxDatabase.VALID_FORMATS
VALID_FORMATS == <<"csv", "html", "tmprefs", "list", "listplain">>

\* formats: ['stdout'] without -F, valid_formats when 'all' is in the
\* string, else formatstr.split(":"); CLIError for a part that is not in
\* valid_formats.
ParseFormats(formatstr) ==
    IF formatstr.t = "none" THEN [exc |-> "", val |-> <<"stdout">>]
    ELSE IF \E i \in 1..(Len(Chars(formatstr.s)) - 2) :
               SubSeq(Chars(formatstr.s), i, i + 2) = <<"a", "l", "l">>
    THEN [exc |-> "", val |-> VALID_FORMATS]
    ELSE IF \E i \in 1..Len(Split(Chars(formatstr.s), ":", 1, <<>>)) :
               ~InList(VALID_FORMATS, Joined(Split(Chars(formatstr.s), ":", 1, <<>>)[i], 1))
    THEN [exc |-> "CLIError", val |-> <<>>]
    ELSE [exc |-> "",
          val |-> [i \in 1..Len(Split(Chars(formatstr.s), ":", 1, <<>>)) |->
                      Joined(Split(Chars(formatstr.s), ":", 1, <<>>)[i], 1)]]

\* verbose > 0: without -v verbose is None, which Python 3 does not compare
\* with 0 (TypeError) and Python 2 takes to be smaller.
VerboseFails(args, env) == env.py3 /\ args.verbose.t = "none"

\* The writer of one format and its write(): the exception that leaves it.
\* Every other format prints the data.
WriterExc(db, heap, format) ==
    CASE format = "html" -> html_write(db, NoKeys, expand_epath(db, "data*")).exc
      [] format = "csv" -> csv_writes(db, heap, CSVWriter(db), NoKeys, 1).exc
      [] format \in {"tmprefs", "list"} ->
            text_write(db, NoKeys, expand_epath(db, "data*")).exc
      [] OTHER -> ""

\* The loop of main over the formats, from the i-th on: the exception that
\* leaves it.  Writer.__init__ calls create_path for the directory of the
\* format, which raises IOError when it cannot be made.
RECURSIVE FormatLoop(_, _, _, _, _)
FormatLoop(db, heap, formats, i, env) ==
    IF i > Len(formats) THEN ""
    ELSE IF formats[i] \in {"html", "csv", "tmprefs", "list"} /\ env.outdir = "blocked"
    THEN "IOError"
    ELSE IF WriterExc(db, heap, formats[i]) # "" THEN WriterExc(db, heap, formats[i])
    ELSE FormatLoop(db, heap, formats, i + 1, env)

\* Does main build the store: print_epaths does, and so does a run that
\* gets past the formats, the verbose test, the site and the directory.
\* CLIError("outdir ... couldn't be created") is built and not raised.
Constructs(args, env, fmts) ==
    \/ args.listepaths
    \/ /\ fmts.exc = ""
       /\ ~VerboseFails(args, env)
       /\ env.status = "200"
       /\ InList(fmts.val, "stdout") \/ env.outdir = "exists" \/ args.force

\* The try block of main: the exception that leaves it, "" when it reaches
\* return 0.  fmts is what the parsing of -F gave, done is what
\* db.initialize() gave.
main_try(args, env, fmts, done) ==
    IF ~Constructs(args, env, fmts)
    THEN IF fmts.exc # "" THEN fmts.exc
         ELSE IF VerboseFails(args, env) THEN "TypeError"
         ELSE IF env.status = "refused" THEN "IOError"
         ELSE IF env.status # "200" THEN "ValueError"
         ELSE "CLIError"
    ELSE IF env.interrupt THEN "KeyboardInterrupt"
    ELSE IF done.exc # "" THEN done.exc
    ELSE IF args.listepaths THEN get_epaths(done.db).exc
    ELSE FormatLoop(done.db, done.heap, fmts.val, 1, env)

\* The handlers of main: what main returns for the exception exc of the try
\* block, or the exception that leaves main.
main_except(exc, args, env) ==
    IF exc = "" THEN [exc |-> "", val |-> ScalarV(IntA(0))]
    ELSE IF exc = "KeyboardInterrupt"
    THEN IF VerboseFails(args, env) THEN [exc |-> "TypeError", val |-> NoneV]
         ELSE [exc |-> "", val |-> ScalarV(IntA(0))]
    ELSE IF exc = "CLIError" THEN [exc |-> "", val |-> ScalarV(IntA(1))]
    ELSE [exc |-> "", val |-> ScalarV(IntA(2))]

----------------------------------------------------------------------------
(* The calls a program makes, with the arguments the model draws.          *)

SiteUrl == "http://s1"
Urls == {SiteUrl, "http://s2"}

\* Keys a caller sets, and keys and patterns a caller asks for.
UserKeys == {"x", "data/type/role"}
AskedKeys == {"x", "data/type/role", KeyTotal, "nokey", "DATA/TYPE/ROLE"}
WildKeys == {"data/type/*", "data/type/rol?", "meta*", "*"}
UserValues == {ScalarV(StrA("v1")), ScalarV(StrA("v2"))}
Formats == {"csv", "list"}

\* ids and names of the entries a caller builds itself.
UserIds == {"role-a", "id"}
UserNames == {"a", "z"}

\* The lists of n pages.
RECURSIVE PageSeqs(_)
PageSeqs(n) ==
    IF n = 0 THEN {<<>>}
    ELSE {Append(ps, p) : ps \in PageSeqs(n - 1), p \in Pages}

\* What a site may serve during one initialize().
Sites == {[indexReadable |-> r, version |-> StrA("1.2"), pages |-> ps] :
            r \in BOOLEAN, ps \in PageSeqs(NumLinks)}

\* The two sites the registry program meets: one that cannot be read and one
\* that serves the same page under every link.
RegistrySites ==
    {[indexReadable |-> r, version |-> StrA("1.2"),
      pages |-> [i \in 1..NumLinks |-> PageMixed]] : r \in BOOLEAN}

Init ==
    /\ entryHeap = <<>>
    /\ entry_classcache = [k \in {} |-> 0]
    /\ dbHeap = <<>>
    /\ db_classcache = [u \in Urls |-> 0]
    /\ ret = Returned("start", 0, NoneA, NoneV)

\* The state after a constructor of Entry returned.
EntryMade(id, made) ==
    /\ Len(made.heap) <= MaxEntries
    /\ entryHeap' = made.heap
    /\ entry_classcache' = made.cache
    /\ ret' = Ret("Entry", 0, StrA(id), "", ScalarV(EntA(made.obj)), made.fresh)
    /\ UNCHANGED <<dbHeap, db_classcache>>

\* Entry({'id': id, 'name': name, ...}, 'id')
NewEntry(id, name) ==
    EntryMade(id, EntryConstruct([id |-> id, name |-> name, classname |-> "",
                                  description |-> "", link |-> ""],
                                 PrimaryType, entryHeap, entry_classcache))

\* The state after a constructor of the store returned.
DatabaseMade(site_url, use_cached, made) ==
    /\ Len(made.heap) <= MaxDbs
    /\ dbHeap' = made.heap
    /\ db_classcache' = made.cache
    /\ ret' = Ret(IF use_cached THEN "Database" ELSE "DatabaseNoCache", 0,
                  StrA(site_url), "", ScalarV(ObjA(made.obj)), made.fresh)
    /\ UNCHANGED <<entryHeap, entry_classcache>>

\* SphinxDatabase(site_url) and SphinxDatabase(site_url, use_cached=False)
NewDatabaseCall(site_url, use_cached) ==
    DatabaseMade(site_url, use_cached,
                 DatabaseConstruct(site_url, use_cached, dbHeap, db_classcache))

\* db[key] = value
SetItem(d, key, value) ==
    /\ dbHeap' = [dbHeap EXCEPT ![d] = setitem(dbHeap[d], key, value)]
    /\ ret' = Returned("set", d, StrA(key), value)
    /\ UNCHANGED <<entryHeap, entry_classcache, db_classcache>>

\* A result whose value is a list of strings, with the list as a value.
AsListV(res) == [exc |-> res.exc, val |-> StrListV(res.val)]

\* A call that reads the store d and changes nothing.
Read(op, d, arg, res) ==
    /\ ret' = Ret(op, d, arg, res.exc, IF res.exc = "" THEN res.val ELSE NoneV, FALSE)
    /\ UNCHANGED <<entryHeap, entry_classcache, dbHeap, db_classcache>>

\* db[key]
GetItem(d, key) == Read("get", d, StrA(key), getitem(dbHeap[d], key))

\* db.keys()
Keys(d) == Read("keys", d, NoneA, [exc |-> "", val |-> StrListV(keys(dbHeap[d]))])

\* db.get_epaths()
GetEpaths(d) == Read("get_epaths", d, NoneA, AsListV(get_epaths(dbHeap[d])))

\* db.expand_epath(epath)
ExpandEpath(d, epath) ==
    Read("expand_epath", d, StrA(epath), AsListV(expand_epath(dbHeap[d], epath)))

\* db.get_data(epath) and db.get_data()
GetData(d, epath) == Read("get_data", d, epath, get_data(dbHeap[d], epath))

\* db.write(outdir, format)
Write(d, format) == Read("write", d, StrA(format), write(dbHeap[d], format))

\* The state after initialize() returned or raised.  A call that ran the
\* extraction to its end records in ret.arg what the site served.
Initialized(d, site, done) ==
    /\ Len(done.heap) <= MaxEntries
    /\ dbHeap' = [dbHeap EXCEPT ![d] = done.db]
    /\ entryHeap' = done.heap
    /\ entry_classcache' = done.cache
    /\ ret' = Ret("initialize", d, IF done.ran /\ done.exc = "" THEN site ELSE NoneA,
                  done.exc, NoneV, done.ran)
    /\ UNCHANGED db_classcache

\* db.initialize()
Initialize(d, site) ==
    Initialized(d, site, initialize(dbHeap[d], site, entryHeap, entry_classcache))

\* The state after get_defs() returned or raised: ret.arg holds the page read
\* and the url of the extractor, ret.val the mapping returned.
DefsGot(page, url, got) ==
    /\ Len(got.heap) <= MaxEntries
    /\ entryHeap' = got.heap
    /\ entry_classcache' = got.cache
    /\ ret' = Ret("get_defs", 0, [page |-> page, url |-> url], got.exc, got.defs, FALSE)
    /\ UNCHANGED <<dbHeap, db_classcache>>

\* DataExtractor(url).get_defs()
GetDefs(page, url) ==
    DefsGot(page, url, get_defs(page, url, entryHeap, entry_classcache))

\* CSVWriter(db, outdir).write() with an empty outdir: ret.val holds the
\* number write() counted and the files outdir holds after the call.
CsvWritten(d, w) ==
    /\ ret' = Ret("csv_write", d, NoneA, w.exc, [num |-> w.num, files |-> w.files], FALSE)
    /\ UNCHANGED <<entryHeap, entry_classcache, dbHeap, db_classcache>>

CsvWrite(d) ==
    CsvWritten(d, csv_writes(dbHeap[d], entryHeap, CSVWriter(dbHeap[d]), NoKeys, 1))

\* A writer that records in the store how many files it wrote.
Exported_Counted(op, d, arg, n, w) ==
    /\ ret' = Ret(op, d, arg, w.exc, [num |-> w.num, files |-> w.files, calls |-> n], FALSE)
    /\ dbHeap' = [dbHeap EXCEPT ![d].total_entries = w.num]
    /\ UNCHANGED <<entryHeap, entry_classcache, db_classcache>>

\* writer.write(epaths) returned or raised, the n-th time on the same
\* writer: ret.val holds the number it returned and the files outdir, empty
\* when the writer was built, holds after the call.
Exported(op, d, arg, n, w) ==
    /\ ret' = Ret(op, d, arg, w.exc, [num |-> w.num, files |-> w.files, calls |-> n], FALSE)
    /\ UNCHANGED <<entryHeap, entry_classcache, dbHeap, db_classcache>>

\* w = CSVWriter(db, outdir), then w.write(epaths) n times
CsvWrites(d, arg, n) ==
    Exported("csv_write", d, arg, n,
             csv_writes(dbHeap[d], entryHeap, CSVWriter(dbHeap[d]), arg, n))

\* TextMateWriter(db, outdir).write(epaths)
TextMateWrite(d, arg) ==
    Exported("tm_write", d, arg, 1,
             text_write(dbHeap[d], arg, expand_epath(dbHeap[d], "data*")))

\* ListWriter(db, outdir).write(epaths)
ListWrite(d, arg) ==
    Exported("list_write", d, arg, 1,
             text_write(dbHeap[d], arg, expand_epath(dbHeap[d], "data*")))

\* HTMLWriter(db, outdir).write(epaths)
HtmlWrite(d, arg) ==
    Exported("html_write", d, arg, 1,
             html_write(dbHeap[d], arg, expand_epath(dbHeap[d], "data*")))

\* The stores a caller may hold a reference to.
Stores == 1..Len(dbHeap)

\* A program that works with the store of one site: it requests the store
\* (the first request builds it) and calls it.
Next ==
    \/ NewDatabaseCall(SiteUrl, TRUE)
    \/ \E d \in Stores, k \in UserKeys, v \in UserValues : SetItem(d, k, v)
    \/ \E d \in Stores, k \in AskedKeys : GetItem(d, k)
    \/ \E d \in Stores : Keys(d)
    \/ \E d \in Stores : GetEpaths(d)
    \/ \E d \in Stores, p \in AskedKeys \cup WildKeys : ExpandEpath(d, p)
    \/ \E d \in Stores, p \in AskedKeys \cup WildKeys : GetData(d, StrA(p))
    \/ \E d \in Stores : GetData(d, NoneA)
    \/ \E d \in Stores, f \in Formats : Write(d, f)
    \/ \E d \in Stores, site \in Sites : Initialize(d, site)

Spec == Init /\ [][Next]_vars

\* The lists of n pages drawn from ps.
RECURSIVE PageLists(_, _)
PageLists(n, ps) ==
    IF n = 0 THEN {<<>>}
    ELSE {Append(l, p) : l \in PageLists(n - 1, ps), p \in ps}

\* The pages and sites of a program that looks at what initialize() extracts:
\* the first two links serve any of the pages, the other links serve no
\* definitions.
ExtractPages == {PageBad, PageEmpty, PageRoles, PageMixed, PageDup, PageBare}
ExtractSites ==
    {[indexReadable |-> TRUE, version |-> StrA("1.2"),
      pages |-> [i \in 1..NumLinks |-> IF i <= 2 THEN l[i] ELSE PageEmpty]] :
        l \in PageLists(2, ExtractPages)}

\* A program that initializes the store of one site, again after a failure,
\* and reads the total and the lists of entries.
NextExtract ==
    \/ NewDatabaseCall(SiteUrl, TRUE)
    \/ \E d \in Stores, site \in ExtractSites : Initialize(d, site)
    \/ \E d \in Stores : GetItem(d, KeyTotal)
    \/ \E d \in Stores : GetData(d, StrA("data/type/*"))

SpecExtract == Init /\ [][NextExtract]_vars

\* The pages and urls of a program that runs extractors of its own.
DefsPages ==
    {PageBad, PageEmpty, PageRoles, PageMixed, PageCross, PageNoAnchor, PageIdA,
     PageBare}
DefsUrls == {SiteUrl \o "/" \o Links[1], SiteUrl \o "/" \o Links[2]}

\* A program that extracts one page after the other.
NextDefs ==
    \E page \in DefsPages, url \in DefsUrls : GetDefs(page, url)

SpecDefs == Init /\ [][NextDefs]_vars

\* The keys a program that exports sets itself, and the sites it reads: the
\* first two links serve definitions, the other links serve none.
CsvKeys == {"metadata/my_note", "data/y"}
CsvPages == {PageBad, PageEmpty, PageMixed, PageQuote}
CsvSites ==
    {[indexReadable |-> TRUE, version |-> StrA("1.2"),
      pages |-> [i \in 1..NumLinks |-> IF i = 1 THEN p ELSE IF i = 2 THEN q ELSE PageEmpty]] :
        p \in CsvPages, q \in CsvPages}

\* A program that fills the store of one site and exports it as CSV.
NextCsv ==
    \/ NewDatabaseCall(SiteUrl, TRUE)
    \/ \E d \in Stores, k \in CsvKeys : SetItem(d, k, ScalarV(StrA("v1")))
    \/ \E d \in Stores, site \in CsvSites : Initialize(d, site)
    \/ \E d \in Stores : CsvWrite(d)

SpecCsv == Init /\ [][NextCsv]_vars

\* The key lists a program passes to the writers, and the site it reads:
\* the first link serves definitions, the other links serve none.
ExportKeyLists ==
    {NoKeys, KeyList(<<>>), KeyList(<<"data/type/role">>), KeyList(<<"data/type/*">>),
     KeyList(<<"meta*">>), KeyList(<<"nokey">>), KeyList(<<"data/type/role", KeyVersion>>)}
ExportSites ==
    {[indexReadable |-> TRUE, version |-> StrA("1.2"),
      pages |-> [i \in 1..NumLinks |-> IF i = 1 THEN p ELSE PageEmpty]] :
        p \in {PageBad, PageMixed, PageQuote}}

\* A program that fills the store of one site and exports it with every
\* writer.
NextExport ==
    \/ NewDatabaseCall(SiteUrl, TRUE)
    \/ \E d \in Stores, k \in CsvKeys : SetItem(d, k, ScalarV(StrA("v1")))
    \/ \E d \in Stores, site \in ExportSites : Initialize(d, site)
    \/ \E d \in Stores, arg \in ExportKeyLists, n \in 1..2 : CsvWrites(d, arg, n)
    \/ \E d \in Stores, arg \in ExportKeyLists : TextMateWrite(d, arg)
    \/ \E d \in Stores, arg \in ExportKeyLists : ListWrite(d, arg)
    \/ \E d \in Stores, arg \in ExportKeyLists : HtmlWrite(d, arg)

SpecExport == Init /\ [][NextExport]_vars

\* main() returned or raised: the store it built is left as initialize()
\* left it, or as it was built when the user interrupted the extraction.
MainDone(args, env, fmts, made, done, res) ==
    /\ Len(done.heap) <= MaxEntries
    /\ ret' = Ret("main", 0, [args |-> args, env |-> env], res.exc, res.val, FALSE)
    /\ IF Constructs(args, env, fmts)
       THEN /\ db_classcache' = made.cache
            /\ IF env.interrupt
               THEN dbHeap' = made.heap /\ UNCHANGED <<entryHeap, entry_classcache>>
               ELSE /\ dbHeap' = [made.heap EXCEPT ![made.obj] = done.db]
                    /\ entryHeap' = done.heap
                    /\ entry_classcache' = done.cache
       ELSE UNCHANGED <<entryHeap, entry_classcache, dbHeap, db_classcache>>

MainMade(args, env, fmts, made, done) ==
    MainDone(args, env, fmts, made, done,
             main_except(main_try(args, env, fmts, done), args, env))

\* main(argv), the one call of a process that runs the program.
Main(args, env) ==
    /\ ret.op = "start"
    /\ MainMade(args, env, ParseFormats(args.formatstr),
                DatabaseConstruct(SiteUrl, TRUE, dbHeap, db_classcache),
                initialize(NewDatabase(SiteUrl), env.site, entryHeap, entry_classcache))

\* The command lines and the runs of the program.
MainArgs ==
    [listepaths : BOOLEAN, verbose : {NoneA, IntA(1)}, force : BOOLEAN,
     formatstr : {NoneA, StrA("csv"), StrA("html:tmprefs"), StrA("list"), StrA("all"),
                  StrA("listplain"), StrA("xml"), StrA("csv:xml")}]
MainEnvs ==
    [py3 : BOOLEAN, status : {"200", "404", "refused"},
     outdir : {"exists", "missing", "blocked"}, site : RegistrySites, interrupt : BOOLEAN]

NextMain == \E args \in MainArgs, env \in MainEnvs : Main(args, env)

SpecMain == Init /\ [][NextMain]_vars

\* Keys and patterns of a program that expands wildcards, and the site it
\* reads: the first link serves definitions, the other links serve none.
GlobKeys == {"data", "DATA/X", "database/x", "data/y"}
GlobPatterns == {"data/*", "data?", "d*a", "*/x"}
GlobSites ==
    {[indexReadable |-> TRUE, version |-> StrA("1.2"),
      pages |-> [i \in 1..NumLinks |-> IF i = 1 THEN PageMixed ELSE PageEmpty]]}

\* A program that sets keys before and after initialize() and expands
\* wildcard patterns.
NextGlob ==
    \/ NewDatabaseCall(SiteUrl, TRUE)
    \/ \E d \in Stores, k \in GlobKeys : SetItem(d, k, ScalarV(StrA("v1")))
    \/ \E d \in Stores, site \in GlobSites : Initialize(d, site)
    \/ \E d \in Stores, p \in GlobPatterns : ExpandEpath(d, p)

SpecGlob == Init /\ [][NextGlob]_vars

\* A program that builds entries of its own.
NextEntry ==
    \E id \in UserIds, name \in UserNames : NewEntry(id, name)

SpecEntry == Init /\ [][NextEntry]_vars

\* A program that requests stores of several sites, with and without the
\* cache, sets keys and initializes.
NextRegistry ==
    \/ \E u \in Urls, use_cached \in BOOLEAN : NewDatabaseCall(u, use_cached)
    \/ \E d \in Stores : SetItem(d, "x", ScalarV(StrA("v1")))
    \/ \E d \in Stores : GetItem(d, "x")
    \/ \E d \in Stores, site \in RegistrySites : Initialize(d, site)

SpecRegistry == Init /\ [][NextRegistry]_vars

----------------------------------------------------------------------------
(* Properties of Entry and of the store, each checked under the            *)
(* specification named with it.                                            *)

\* The store the last call was made on is d.
CalledOn(d, op) == ret.d = d /\ ret.op = op

\* The pattern of the last call holds a wildcard.
IsWildcard(p) == HasChar(p, "*") \/ HasChar(p, "?")

\* The last call was op on d with a string argument that holds no wildcard.
CalledWithKey(d, op) ==
    CalledOn(d, op) /\ ret.arg.t = "str" /\ ~IsWildcard(ret.arg.s)

\* The last call was op on d with a string argument that holds a wildcard.
CalledWithPattern(d, op) ==
    CalledOn(d, op) /\ ret.arg.t = "str" /\ IsWildcard(ret.arg.s)

\* The stores built for the site url u so far.
StoresOf(heap, u) == {d \in 1..Len(heap) : heap[d].site_url = u}

\* The store built last for the site url u.
LastStoreOf(heap, u) ==
    CHOOSE d \in StoresOf(heap, u) : \A e \in StoresOf(heap, u) : e <= d

\* The values of the keys of ks, visited in the order of contents c: a list
\* is spliced in, any other value is one item.
RECURSIVE Spliced(_, _, _)
Spliced(c, ks, i) ==
    IF i > Len(c) THEN <<>>
    ELSE (IF c[i].k \in ks
          THEN (IF c[i].v.isList THEN c[i].v.l ELSE <<c[i].v.a>>)
          ELSE <<>>) \o Spliced(c, ks, i + 1)

\* The set of the keys expand_epath returns for pattern p on store db.
Matched(db, p) ==
    {expand_epath(db, p).val[i] : i \in 1..Len(expand_epath(db, p).val)}

\* C1 (SpecEntry): constructing an Entry with an id that an existing Entry
\* has returns that existing instance: no two Entry instances hold the same
\* id, and the instance a constructor call returned holds the id asked for.
C1_OneInstancePerId ==
    /\ \A i, j \in 1..Len(entryHeap) :
          entryHeap[i].items.id = entryHeap[j].items.id => i = j
    /\ ret.op = "Entry" => entryHeap[ret.val.a.n].items.id = ret.arg.s

\* C2 (SpecRegistry): a construction for site url U with use_cached at its
\* default, when a store was built for U before, returns the store built
\* last for U and builds nothing; a construction builds a new store exactly
\* when use_cached=False is passed or no store was built for U before.
C2_CachedStoreReturned ==
    [][\A u \in Urls :
          (ret'.op \in {"Database", "DatabaseNoCache"} /\ ret'.arg = StrA(u)) =>
             /\ (ret'.op = "Database" /\ StoresOf(dbHeap, u) # {}) =>
                   /\ ret'.val = ScalarV(ObjA(LastStoreOf(dbHeap, u)))
                   /\ Len(dbHeap') = Len(dbHeap)
             /\ (Len(dbHeap') = Len(dbHeap) + 1) <=>
                   (ret'.op = "DatabaseNoCache" \/ StoresOf(dbHeap, u) = {})
             /\ Len(dbHeap') \in {Len(dbHeap), Len(dbHeap) + 1}
             /\ ret'.fresh <=> (Len(dbHeap') = Len(dbHeap) + 1)
      ]_vars

\* C2 witness: a default construction returned a store that existed, was
\* initialized and is not the first store built for its url.
C2_Witness ==
    /\ ret.op = "Database"
    /\ ~ret.fresh
    /\ ret.val.a.n = 2
    /\ dbHeap[2].initialized
    /\ dbHeap[1].site_url = dbHeap[2].site_url

\* C3 (Spec): an initialized store stays initialized, and initialize() on an
\* initialized store raises nothing, runs no extraction, builds no Entry and
\* leaves contents, key snapshot, total_entries and the flag as they were,
\* so that every query gives the result it gave before the call.
C3_InitializeIdempotent ==
    [][\A d \in 1..Len(dbHeap) :
          dbHeap[d].initialized =>
             /\ dbHeap'[d].initialized
             /\ (ret'.op = "initialize" /\ ret'.d = d) =>
                   /\ ret'.exc = ""
                   /\ ~ret'.fresh
                   /\ dbHeap'[d].contents = dbHeap[d].contents
                   /\ dbHeap'[d].epaths = dbHeap[d].epaths
                   /\ dbHeap'[d].total_entries = dbHeap[d].total_entries
                   /\ entryHeap' = entryHeap
                   /\ entry_classcache' = entry_classcache
                   /\ \A p \in AskedKeys \cup WildKeys :
                         /\ get_data(dbHeap'[d], StrA(p)) = get_data(dbHeap[d], StrA(p))
                         /\ expand_epath(dbHeap'[d], p) = expand_epath(dbHeap[d], p)
                         /\ getitem(dbHeap'[d], p) = getitem(dbHeap[d], p)
      ]_vars

\* C3 witness: initialize() returned on a store that was initialized, with
\* entries stored, and ran no extraction.
C3_Witness ==
    /\ ret.op = "initialize"
    /\ ~ret.fresh
    /\ ret.exc = ""
    /\ dbHeap[ret.d].initialized
    /\ dbHeap[ret.d].total_entries > 2

\* The calls that read the store.
ReadOps == {"get", "keys", "get_epaths", "expand_epath", "get_data", "write"}

C6_GetDataNoneReturnsAll ==
    \A d \in 1..Len(dbHeap) :
       (dbHeap[d].initialized /\ CalledOn(d, "get_data") /\ ret.arg = NoneA) =>
          /\ ret.exc = ""
          /\ ret.val.isList
          /\ Len(ret.val.l) = Len(dbHeap[d].contents)

\* C7 (Spec): get_data called on an initialized store with a key that holds
\* no wildcard and is not stored raises nothing and returns None.
C7_AbsentKeyGivesNone ==
    \A d \in 1..Len(dbHeap) :
       (/\ dbHeap[d].initialized
        /\ CalledWithKey(d, "get_data")
        /\ ~DictHas(dbHeap[d].contents, ret.arg.s)) =>
          (ret.exc = "" /\ ret.val = NoneV)

\* C8 (Spec): get_data with a wildcard pattern that matches more than one
\* key returns one flat list: the matched keys are visited in stored order,
\* the elements of a list value are spliced in and any other value is
\* appended as one item.
C8_WildcardFlattens ==
    \A d \in 1..Len(dbHeap) :
       (/\ dbHeap[d].initialized
        /\ CalledWithPattern(d, "get_data")
        /\ Cardinality(Matched(dbHeap[d], ret.arg.s)) > 1) =>
          /\ ret.exc = ""
          /\ ret.val = ListV(Spliced(dbHeap[d].contents,
                                     Matched(dbHeap[d], ret.arg.s), 1))

\* C8 witness: get_data returned a flat list for a pattern that matched a
\* key holding a list of two entries and a key holding a scalar.
C8_Witness ==
    \E d \in 1..Len(dbHeap) :
       /\ dbHeap[d].initialized
       /\ CalledWithPattern(d, "get_data")
       /\ ret.exc = ""
       /\ \E k1, k2 \in Matched(dbHeap[d], ret.arg.s) :
             /\ DictGet(dbHeap[d].contents, k1).isList
             /\ Len(DictGet(dbHeap[d].contents, k1).l) = 2
             /\ ~DictGet(dbHeap[d].contents, k2).isList
       /\ Len(ret.val.l) > Cardinality(Matched(dbHeap[d], ret.arg.s))

\* C9 (Spec): get_data with a wildcard pattern that matches exactly one key
\* K returns the value stored under K.
C9_SingleMatchGivesValue ==
    \A d \in 1..Len(dbHeap) :
       (/\ dbHeap[d].initialized
        /\ CalledWithPattern(d, "get_data")
        /\ Cardinality(Matched(dbHeap[d], ret.arg.s)) = 1) =>
          /\ ret.exc = ""
          /\ \A k \in Matched(dbHeap[d], ret.arg.s) :
                ret.val = DictGet(dbHeap[d].contents, k)

\* C10 as stated (Spec): expand_epath on an initialized store, with a
\* pattern that holds no wildcard, returns [pattern] when the pattern is one
\* of the keys stored, and otherwise fails with ValueError.
C10_ExactKeyOfStore ==
    \A d \in 1..Len(dbHeap) :
       (dbHeap[d].initialized /\ CalledWithKey(d, "expand_epath")) =>
          IF DictHas(dbHeap[d].contents, ret.arg.s)
          THEN ret.exc = "" /\ ret.val = StrListV(<<ret.arg.s>>)
          ELSE ret.exc = "ValueError" /\ ret.val = NoneV

\* C10 amended (Spec): expand_epath with a pattern that holds no wildcard
\* returns [pattern] when the pattern is (case-sensitively) in the key list
\* initialize() recorded, and otherwise fails with ValueError; a key set
\* after initialize() is not in that list.  On a store that is not
\* initialized it fails with InvalidStateError.
C10_ExactKeyOfSnapshot ==
    \A d \in 1..Len(dbHeap) :
       CalledWithKey(d, "expand_epath") =>
          IF ~dbHeap[d].initialized
          THEN ret.exc = "InvalidStateError" /\ ret.val = NoneV
          ELSE IF InList(dbHeap[d].epaths, ret.arg.s)
          THEN ret.exc = "" /\ ret.val = StrListV(<<ret.arg.s>>)
          ELSE ret.exc = "ValueError" /\ ret.val = NoneV

\* C10 witness: expand_epath failed with ValueError for a key that was set
\* after initialize() and is stored.
C10_Witness ==
    \E d \in 1..Len(dbHeap) :
       /\ dbHeap[d].initialized
       /\ CalledWithKey(d, "expand_epath")
       /\ DictHas(dbHeap[d].contents, ret.arg.s)
       /\ ~InList(dbHeap[d].epaths, ret.arg.s)
       /\ ret.exc = "ValueError"

\* Whole-string glob matching: can the pattern p, from its i-th character
\* on, match the rest of s from position j to its end.  '*' stands for zero
\* or more characters, '?' for exactly one, any other character for itself
\* without regard to case.
RECURSIVE GlobFrom(_, _, _, _)
GlobFrom(p, i, s, j) ==
    IF i > Len(p) THEN j > Len(s)
    ELSE IF p[i] = "*"
    THEN \E k \in j..(Len(s) + 1) : GlobFrom(p, i + 1, s, k)
    ELSE IF p[i] = "?"
    THEN j <= Len(s) /\ GlobFrom(p, i + 1, s, j + 1)
    ELSE j <= Len(s) /\ Lower(p[i]) = Lower(s[j]) /\ GlobFrom(p, i + 1, s, j + 1)

\* The keys of ks, in their order, that the glob pattern matches.
RECURSIVE GlobFilter(_, _, _)
GlobFilter(pattern, ks, i) ==
    IF i > Len(ks) THEN <<>>
    ELSE (IF GlobFrom(Chars(pattern), 1, Chars(ks[i]), 1) THEN <<ks[i]>> ELSE <<>>)
         \o GlobFilter(pattern, ks, i + 1)

\* C11 (SpecGlob): expand_epath with a wildcard pattern, on an initialized
\* store, returns exactly the keys of the recorded key list that the pattern
\* matches as a glob over the whole key, in their order.
C11_ExactGlob ==
    \A d \in 1..Len(dbHeap) :
       (dbHeap[d].initialized /\ CalledWithPattern(d, "expand_epath")) =>
          /\ ret.exc = ""
          /\ ret.val = StrListV(GlobFilter(ret.arg.s, dbHeap[d].epaths, 1))

\* The first component of key k is 'data', ignoring case.
IsDataKey(k) ==
    [i \in 1..Len(FirstComponent(Chars(k), 1)) |->
        Lower(FirstComponent(Chars(k), 1)[i])] = <<"d", "a", "t", "a">>

\* The key k holds a '/'.
HasSegments(k) == Len(FirstComponent(Chars(k), 1)) < Len(Chars(k))

\* The keys of ks whose first component is 'data', in their order; with
\* slashed, only those that hold a '/'.
RECURSIVE DataKeys(_, _, _)
DataKeys(ks, i, slashed) ==
    IF i > Len(ks) THEN <<>>
    ELSE (IF IsDataKey(ks[i]) /\ (slashed => HasSegments(ks[i]))
          THEN <<ks[i]>> ELSE <<>>) \o DataKeys(ks, i + 1, slashed)

\* C12 as stated (SpecGlob): expand_epath("data/*") on an initialized store
\* returns exactly the stored keys whose primary segment is 'data' ignoring
\* case, in insertion order.
C12_DataKeysOfStore ==
    \A d \in 1..Len(dbHeap) :
       (/\ dbHeap[d].initialized
        /\ CalledOn(d, "expand_epath")
        /\ ret.arg = StrA("data/*")) =>
          /\ ret.exc = ""
          /\ ret.val = StrListV(DataKeys(keys(dbHeap[d]), 1, FALSE))

\* C12 amended (SpecGlob): expand_epath("data/*") on an initialized store
\* returns exactly the keys of the key list initialize() recorded that
\* begin with 'data/' ignoring case, in their order: a key set after
\* initialize() and a key that is 'data' alone are not returned.
C12_DataKeysOfSnapshot ==
    \A d \in 1..Len(dbHeap) :
       (/\ dbHeap[d].initialized
        /\ CalledOn(d, "expand_epath")
        /\ ret.arg = StrA("data/*")) =>
          /\ ret.exc = ""
          /\ ret.val = StrListV(DataKeys(dbHeap[d].epaths, 1, TRUE))

\* C12 witness: expand_epath("data/*") returned, among others, the key
\* DATA/X, on a store whose recorded key list holds 'data' and that holds
\* data/y, set after initialize().
C12_Witness ==
    \E d \in 1..Len(dbHeap) :
       /\ dbHeap[d].initialized
       /\ CalledOn(d, "expand_epath")
       /\ ret.arg = StrA("data/*")
       /\ \E i \in 1..Len(ret.val.l) : ret.val.l[i] = StrA("DATA/X")
       /\ \E i \in 1..Len(ret.val.l) : ret.val.l[i] = StrA("data/type/role")
       /\ InList(dbHeap[d].epaths, "data")
       /\ InList(keys(dbHeap[d]), "data/y")
       /\ ~InList(dbHeap[d].epaths, "data/y")

\* The terms of a page, in document order, each with the class and the
\* position of its list.
RECURSIVE TermsOf(_, _)
TermsOf(dls, j) ==
    IF j > Len(dls) THEN <<>>
    ELSE [k \in 1..Len(dls[j].dts) |-> [class |-> dls[j].class, dt |-> dls[j].dts[k], list |-> j]]
         \o TermsOf(dls, j + 1)

\* The term can be extracted: it has no anchor without an href.
Extractable(dt) == ~(dt.a.has /\ ~dt.a.hasHref)

\* The ids of the terms of the pages ps; with only, of the terms that can be
\* extracted.
TermIds(ps, only) ==
    UNION {{TermsOf(ps[i].dls, 1)[k].dt.id :
               k \in {n \in 1..Len(TermsOf(ps[i].dls, 1)) :
                         only => Extractable(TermsOf(ps[i].dls, 1)[n].dt)}} :
           i \in 1..Len(ps)}

\* The ids of the entries in the lists the store holds.
StoredIds(db, heap) ==
    UNION {{heap[db.contents[i].v.l[k].n].items.id :
               k \in {n \in 1..Len(db.contents[i].v.l) :
                         db.contents[i].v.l[n].t = "entry"}} :
           i \in {n \in 1..Len(db.contents) : db.contents[n].v.isList}}

\* The last call was an initialize() on d that ran the extraction.
Extracted(d) == ret.op = "initialize" /\ ret.d = d /\ ret.fresh

\* C13 (SpecExtract): after an initialize() that ran to its end, the value
\* under metadata/stats/total_entries is 3 plus the number of distinct ids
\* of the terms of all pages.
C13_TotalCountsDistinctIds ==
    \A d \in 1..Len(dbHeap) :
       (Extracted(d) /\ ret.exc = "") =>
          DictGet(dbHeap[d].contents, KeyTotal) =
             ScalarV(IntA(3 + Cardinality(TermIds(ret.arg.pages, FALSE))))

\* C14 (SpecExtract): an initialize() that raises leaves the store
\* uninitialized; a store becomes initialized only by an initialize() that
\* returned normally after every page could be read and extracted, with the
\* entries of every page stored.
C14_PartialRunNotInitialized ==
    [][\A d \in 1..Len(dbHeap) :
          /\ (~dbHeap[d].initialized /\ dbHeap'[d].initialized) =>
                (ret'.op = "initialize" /\ ret'.d = d /\ ret'.fresh /\ ret'.exc = "")
          /\ (ret'.op = "initialize" /\ ret'.d = d /\ ret'.fresh) =>
                /\ ret'.exc # "" => ~dbHeap'[d].initialized
                /\ ret'.exc = "" =>
                      /\ dbHeap'[d].initialized
                      /\ \A i \in 1..NumLinks :
                            /\ ret'.arg.pages[i].readable
                            /\ \A k \in 1..Len(TermsOf(ret'.arg.pages[i].dls, 1)) :
                                  Extractable(TermsOf(ret'.arg.pages[i].dls, 1)[k].dt)
                      /\ TermIds(ret'.arg.pages, FALSE) \subseteq
                            StoredIds(dbHeap'[d], entryHeap')
      ]_vars

\* C14 witness: initialize() raised after it had stored the entries of a
\* page, and the store is not initialized.
C14_Witness ==
    \E d \in 1..Len(dbHeap) :
       /\ Extracted(d)
       /\ ret.exc # ""
       /\ ~dbHeap[d].initialized
       /\ DictHas(dbHeap[d].contents, "data/type/role")

\* C15 (SpecExtract): initialize() does not end with the exception of a term
\* that cannot be extracted (the TypeError of an anchor without href, the
\* only TypeError of this program), and a run that reached its end stored
\* every term that can be extracted.
C15_TermFailureSkipped ==
    \A d \in 1..Len(dbHeap) :
       Extracted(d) =>
          /\ ret.exc # "TypeError"
          /\ ret.exc = "" =>
                TermIds(ret.arg.pages, TRUE) \subseteq StoredIds(dbHeap[d], entryHeap)

\* The last call was a get_defs() that returned its mapping.
DefsOf == ret.op = "get_defs" /\ ret.exc = ""

\* The terms of the page the last get_defs() read.
PageTerms == TermsOf(ret.arg.page.dls, 1)

\* The items of the entry returned for the k-th term of the page: the entry
\* at the term's rank among the terms of its class, in the list of the class.
EntryOfTerm(terms, k) ==
    entryHeap[DictGet(ret.val, terms[k].class)
                 [Cardinality({n \in 1..k : terms[n].class = terms[k].class})]].items

\* The link of the k-th term: the url and the href of the last term up to k
\* that has an anchor, '' when there is none.
RECURSIVE InheritedLink(_, _, _)
InheritedLink(terms, k, url) ==
    IF k = 0 THEN ""
    ELSE IF terms[k].dt.a.has THEN url \o terms[k].dt.a.href
    ELSE InheritedLink(terms, k - 1, url)

\* C16 (SpecDefs): in the mapping get_defs() returns, the link of the entry
\* of a term with an anchor is the url of the extractor followed by the
\* href, the link of the entry of a term without one is the link of the last
\* term with an anchor before it in the page, in whatever list, and '' when
\* the page has none before it.
C16_LinkInherited ==
    DefsOf =>
       \A k \in 1..Len(PageTerms) :
          EntryOfTerm(PageTerms, k).link = InheritedLink(PageTerms, k, ret.arg.url)

\* C17 (SpecDefs): for a list of two terms and one description block where
\* only the first term has an anchor, the entry of the second term has the
\* link of the entry of the first, and the description of the entry of the
\* first term is 'see ' followed by the name of the entry of the second.
C17_SeeNamesSecondTerm ==
    DefsOf =>
       \A k \in 1..(Len(PageTerms) - 1) :
          (/\ PageTerms[k].list = PageTerms[k + 1].list
           /\ Len(ret.arg.page.dls[PageTerms[k].list].dts) = 2
           /\ ret.arg.page.dls[PageTerms[k].list].dd.has
           /\ PageTerms[k].dt.a.has
           /\ ~PageTerms[k + 1].dt.a.has) =>
             /\ EntryOfTerm(PageTerms, k + 1).link = EntryOfTerm(PageTerms, k).link
             /\ EntryOfTerm(PageTerms, k).description =
                   "see " \o EntryOfTerm(PageTerms, k + 1).name

\* 'New in version ' in any case, from position i on.
MarkerText(cs, i) ==
    /\ i + 14 <= Len(cs)
    /\ \A k \in 1..15 : Lower(cs[i + k - 1]) = SINCE_REGEX[k]

\* From position b on: a run of digits to position e1 - 1, a dot, and a run
\* of digits that ends at e and is followed by no digit.
VersionAt(cs, b, e1, e) ==
    /\ b < e1 /\ e1 < e
    /\ \A k \in b..(e1 - 1) : IsDigit(cs[k])
    /\ cs[e1] = "."
    /\ \A k \in (e1 + 1)..e : IsDigit(cs[k])
    /\ e < Len(cs) => ~IsDigit(cs[e + 1])

\* The positions at which a marker begins.
Markers(cs) ==
    {i \in 1..Len(cs) :
        /\ MarkerText(cs, i)
        /\ \E e1 \in (i + 15)..Len(cs), e \in (i + 15)..Len(cs) :
              VersionAt(cs, i + 15, e1, e)}

\* The version of the marker at position i.
MarkerVersion(cs, i) ==
    Joined(SubSeq(cs, i + 15,
                  CHOOSE e \in (i + 15)..Len(cs) :
                     \E e1 \in (i + 15)..Len(cs) : VersionAt(cs, i + 15, e1, e)), 1)

\* The smallest element of a set of positions.
First(ps) == CHOOSE i \in ps : \A j \in ps : i <= j

\* C18 (SpecDefs): the since item of every entry get_defs() built is the
\* version of the first 'New in version X.Y' marker (in any case, X and Y
\* runs of digits) of its description item, and '0.1' when the description
\* has no marker.
C18_SinceOfFirstMarker ==
    \A n \in 1..Len(entryHeap) :
       entryHeap[n].items.since =
          IF Markers(Chars(entryHeap[n].items.description)) = {}
          THEN "0.1"
          ELSE MarkerVersion(Chars(entryHeap[n].items.description),
                             First(Markers(Chars(entryHeap[n].items.description))))

\* C18 witness: get_defs() built an entry whose description begins with the
\* marker of version 1.4 and whose since is '1.4', an entry with the markers
\* of 2.0 and 1.1 whose since is '2.0', and an entry with the default.
C18_Witness ==
    /\ ret.op = "get_defs"
    /\ \E n \in 1..Len(entryHeap) :
          /\ entryHeap[n].items.description = "New in version 1.4. Some details."
          /\ entryHeap[n].items.since = "1.4"
    /\ \E n \in 1..Len(entryHeap) :
          /\ entryHeap[n].items.deprecated = "3.0"
          /\ entryHeap[n].items.since = "2.0"
    /\ \E n \in 1..Len(entryHeap) :
          /\ entryHeap[n].items.description = "New in version 1. x"
          /\ entryHeap[n].items.since = "0.1"

\* The last call was a write() of a CSVWriter on d that returned.
CsvOf(d) == ret.op = "csv_write" /\ ret.d = d /\ ret.exc = ""

\* The n-th smallest element of a set of positions.
Nth(B, n) == CHOOSE b \in B : Cardinality({c \in B : c < b}) = n - 1

\* The pieces of cs between the positions seps, in order.
Pieces(cs, seps) ==
    [n \in 1..(Cardinality(seps) + 1) |->
        SubSeq(cs, Nth(seps \cup {0, Len(cs) + 1}, n) + 1,
                   Nth(seps \cup {0, Len(cs) + 1}, n + 1) - 1)]

\* The files the last write() left, and the lines of one of them.
CsvFiles == ret.val.files
LinesOf(fname) ==
    Pieces(DictGet(CsvFiles, fname),
           {i \in 1..Len(DictGet(CsvFiles, fname)) : DictGet(CsvFiles, fname)[i] = "\n"})

\* The keys of the key list of db whose primary type is ptype.
KeysOfType(db, ptype) ==
    {db.epaths[i] : i \in {n \in 1..Len(db.epaths) : primary_type(db.epaths[n]) = ptype}}

\* The cells of a CSV row: the texts between the commas that are outside
\* quotes, those with an even number of quotes before them.
RawCells(cs) ==
    Pieces(cs, {i \in 1..Len(cs) :
                   /\ cs[i] = ","
                   /\ Cardinality({j \in 1..(i - 1) : cs[j] = "\""}) % 2 = 0})

\* The cell begins and ends with a quote.
IsWrapped(cell) == Len(cell) >= 2 /\ cell[1] = "\"" /\ cell[Len(cell)] = "\""

\* Every quote of cs from position i on is followed by a second one.
RECURSIVE QuotesDoubled(_, _)
QuotesDoubled(cs, i) ==
    IF i > Len(cs) THEN TRUE
    ELSE IF cs[i] # "\"" THEN QuotesDoubled(cs, i + 1)
    ELSE i < Len(cs) /\ cs[i + 1] = "\"" /\ QuotesDoubled(cs, i + 2)

\* cs from position i on with every pair of quotes made one quote.
RECURSIVE Undoubled(_, _)
Undoubled(cs, i) ==
    IF i > Len(cs) THEN <<>>
    ELSE <<cs[i]>> \o Undoubled(cs, IF cs[i] = "\"" THEN i + 2 ELSE i + 1)

\* The cell is the value wrapped in quotes with its quotes doubled, and the
\* undoing of both gives the value.
CellHolds(cell, value) ==
    /\ IsWrapped(cell)
    /\ QuotesDoubled(SubSeq(cell, 2, Len(cell) - 1), 1)
    /\ Undoubled(SubSeq(cell, 2, Len(cell) - 1), 1) = value

\* The row holds the items of the entry, column by column.
RowHolds(row, items) ==
    /\ Len(RawCells(row)) = Len(EntryColumns)
    /\ \A c \in 1..Len(EntryColumns) :
          CellHolds(RawCells(row)[c], Chars(items[EntryColumns[c]]))

\* C19 (SpecCsv): after write() of a CSVWriter, the file of every key of
\* primary type data whose value is a list of entries holds, after the line
\* of the column names, one line per entry whose cells are the items of the
\* entry, each wrapped in quotes with its quotes doubled; undoing both gives
\* the item.
C19_CellsQuotedAndDoubled ==
    \A d \in 1..Len(dbHeap) :
       CsvOf(d) =>
          \A k \in KeysOfType(dbHeap[d], "data") :
             (DictGet(dbHeap[d].contents, k).isList
                 /\ Len(DictGet(dbHeap[d].contents, k).l) > 0) =>
                /\ DictHas(CsvFiles, DataFile(Comps(k)))
                /\ Len(LinesOf(DataFile(Comps(k)))) =
                      1 + Len(DictGet(dbHeap[d].contents, k).l)
                /\ \A n \in 1..Len(DictGet(dbHeap[d].contents, k).l) :
                      RowHolds(LinesOf(DataFile(Comps(k)))[n + 1],
                               entryHeap[DictGet(dbHeap[d].contents, k).l[n].n].items)

\* C19 witness: the store holds an entry whose description is
\* He said "hi", and a line of type-role.csv holds the cell
\* "He said ""hi""".
C19_Witness ==
    \E d \in 1..Len(dbHeap) :
       /\ CsvOf(d)
       /\ DictHas(dbHeap[d].contents, "data/type/role")
       /\ \E n \in 1..Len(DictGet(dbHeap[d].contents, "data/type/role").l) :
             entryHeap[DictGet(dbHeap[d].contents, "data/type/role").l[n].n]
                .items.description = "He said \"hi\""
       /\ DictHas(CsvFiles, "type-role.csv")
       /\ \E n \in 1..Len(LinesOf("type-role.csv")) :
             /\ Len(RawCells(LinesOf("type-role.csv")[n])) = 7
             /\ RawCells(LinesOf("type-role.csv")[n])[4] =
                   <<"\"", "H", "e", " ", "s", "a", "i", "d", " ", "\"", "\"", "h", "i",
                     "\"", "\"", "\"">>

\* C20 (SpecCsv): after write() of a CSVWriter with no key list, the file
\* metadata.csv exists, its first line is name,value, and for every key of
\* the key list whose primary type is metadata one of its lines is the row
\* of that key.
C20_MetadataConsolidated ==
    \A d \in 1..Len(dbHeap) :
       CsvOf(d) =>
          /\ DictHas(CsvFiles, "metadata.csv")
          /\ LinesOf("metadata.csv")[1] = <<"n", "a", "m", "e", ",", "v", "a", "l", "u", "e">>
          /\ \A k \in KeysOfType(dbHeap[d], "metadata") :
                \E n \in 2..Len(LinesOf("metadata.csv")) :
                   LinesOf("metadata.csv")[n] =
                      ScalarRow(k, DictGet(dbHeap[d].contents, k).a)

\* The ids of the entries of a list of atoms, in their order.
IdsOf(heap, l) == [n \in 1..Len(l) |-> heap[l[n].n].items.id]

\* The keys of the contents of db that hold a list.
ListKeys(db) ==
    {db.contents[i].k : i \in {n \in 1..Len(db.contents) : db.contents[n].v.isList}}

\* C24 (SpecExtract): after an initialize() that ran to its end, no list
\* stored under data/type/<class> holds two entries with the same id.
C24_NoDuplicateIds ==
    \A d \in 1..Len(dbHeap) :
       (Extracted(d) /\ ret.exc = "") =>
          \A k \in ListKeys(dbHeap[d]) :
             \A m, n \in 1..Len(DictGet(dbHeap[d].contents, k).l) :
                IdsOf(entryHeap, DictGet(dbHeap[d].contents, k).l)[m] =
                   IdsOf(entryHeap, DictGet(dbHeap[d].contents, k).l)[n] => m = n

\* The terms of a sequence of terms that belong to lists of class c.
TermsOfClass(terms, c) == SelectSeq(terms, LAMBDA t : t.class = c)

\* C25 (SpecDefs): the keys of the mapping get_defs() returns are the
\* classes of the lists of the page that hold a term, and the list under a
\* class holds one entry per term of the lists of that class, in document
\* order: the ids of its entries are the ids of those terms.
C25_OneEntryPerTerm ==
    DefsOf =>
       /\ {ret.val[i].k : i \in 1..Len(ret.val)} =
             {PageTerms[k].class : k \in 1..Len(PageTerms)}
       /\ \A i \in 1..Len(ret.val) :
             IdsOf(entryHeap, [n \in 1..Len(ret.val[i].v) |-> EntA(ret.val[i].v[n])]) =
                [n \in 1..Len(TermsOfClass(PageTerms, ret.val[i].k)) |->
                    TermsOfClass(PageTerms, ret.val[i].k)[n].dt.id]

\* The sum of the lengths of the lists of contents c, from the i-th key on.
RECURSIVE ListLengths(_, _)
ListLengths(c, i) ==
    IF i > Len(c) THEN 0
    ELSE (IF c[i].v.isList THEN Len(c[i].v.l) ELSE 0) + ListLengths(c, i + 1)

\* C27 (SpecExtract): in every state, the total stored by an initialized
\* store is 3 plus the sum of the lengths of its lists.
C27_TotalIsListLengths ==
    \A d \in 1..Len(dbHeap) :
       dbHeap[d].initialized =>
          DictGet(dbHeap[d].contents, KeyTotal) =
             ScalarV(IntA(3 + ListLengths(dbHeap[d].contents, 1)))

\* The keys of db that are stored and are not in the key list initialize()
\* recorded: the keys first set after initialize().
LateKeys(db) == {k \in {keys(db)[i] : i \in 1..Len(keys(db))} : ~InList(db.epaths, k)}

\* C26 (Spec): on an initialized store, a key first set after initialize()
\* is returned by item access; it is not in the list get_epaths() returns
\* nor in the list expand_epath returns for a wildcard pattern; and
\* expand_epath and get_data with that key fail with ValueError.
C26_LateKeyOutsideSnapshot ==
    \A d \in 1..Len(dbHeap) :
       dbHeap[d].initialized =>
          \A k \in LateKeys(dbHeap[d]) :
             /\ (CalledOn(d, "get") /\ ret.arg = StrA(k)) =>
                   (ret.exc = "" /\ ret.val = DictGet(dbHeap[d].contents, k))
             /\ CalledOn(d, "get_epaths") => ~InList(ret.val.l, StrA(k))
             /\ CalledWithPattern(d, "expand_epath") => ~InList(ret.val.l, StrA(k))
             /\ ((CalledOn(d, "expand_epath") \/ CalledOn(d, "get_data"))
                    /\ ret.arg = StrA(k)) =>
                   (ret.exc = "ValueError" /\ ret.val = NoneV)

\* C26 witness: get_data was called with a key that is stored and was set
\* after initialize(), and failed with ValueError.
C26_Witness ==
    \E d \in 1..Len(dbHeap) :
       /\ dbHeap[d].initialized
       /\ CalledOn(d, "get_data")
       /\ ret.arg = StrA("x")
       /\ "x" \in LateKeys(dbHeap[d])
       /\ ret.exc = "ValueError"

\* C28 (Spec): an initialized store holds the key of the total and every
\* key of its key list, so every key expand_epath returns for a pattern can
\* be read, and a get_data that collected several keys met no missing one.
C28_SnapshotKeysStored ==
    \A d \in 1..Len(dbHeap) :
       dbHeap[d].initialized =>
          /\ DictHas(dbHeap[d].contents, KeyTotal)
          /\ \A i \in 1..Len(dbHeap[d].epaths) :
                DictHas(dbHeap[d].contents, dbHeap[d].epaths[i])
          /\ \A p \in WildKeys : \A k \in Matched(dbHeap[d], p) :
                getitem(dbHeap[d], k).exc = ""
          /\ (CalledWithPattern(d, "get_data") /\ ret.exc = ""
                 /\ Cardinality(Matched(dbHeap[d], ret.arg.s)) > 1) =>
                /\ ret.val.isList
                /\ \A i \in 1..Len(ret.val.l) : ret.val.l[i] # NoneA

\* C28 witness: get_data collected the values of several keys on an
\* initialized store that holds a key set after initialize().
C28_Witness ==
    \E d \in 1..Len(dbHeap) :
       /\ dbHeap[d].initialized
       /\ CalledWithPattern(d, "get_data")
       /\ ret.exc = ""
       /\ Cardinality(Matched(dbHeap[d], ret.arg.s)) > 1
       /\ LateKeys(dbHeap[d]) # {}

\* C29 (SpecRegistry): a construction for site url U with
\* use_cached=False builds a new store and registers it under U, and leaves
\* every store built before as it was; in every state the registry maps U
\* to the store built last for U, so that a later default construction for
\* U returns that store and none built earlier.
C29_BypassReplacesRegistered ==
    [][/\ \A u \in Urls :
             /\ (ret'.op = "DatabaseNoCache" /\ ret'.arg = StrA(u)) =>
                   /\ Len(dbHeap') = Len(dbHeap) + 1
                   /\ ret'.val = ScalarV(ObjA(Len(dbHeap')))
                   /\ db_classcache'[u] = Len(dbHeap')
                   /\ SubSeq(dbHeap', 1, Len(dbHeap)) = dbHeap
             /\ (ret'.op = "Database" /\ ret'.arg = StrA(u)) =>
                   /\ ret'.val = ScalarV(ObjA(db_classcache'[u]))
                   /\ StoresOf(dbHeap, u) # {} =>
                         \A e \in StoresOf(dbHeap, u) : e <= ret'.val.a.n
             /\ StoresOf(dbHeap', u) # {} =>
                   db_classcache'[u] = LastStoreOf(dbHeap', u)
      ]_vars

\* C29 witness: a default construction returned the store that an earlier
\* construction with use_cached=False had built, while the store built
\* first for the url is initialized and holds its entries.
C29_Witness ==
    /\ ret.op = "Database"
    /\ ~ret.fresh
    /\ Len(dbHeap) >= 2
    /\ dbHeap[1].site_url = dbHeap[ret.val.a.n].site_url
    /\ ret.val.a.n > 1
    /\ db_classcache[dbHeap[1].site_url] = ret.val.a.n
    /\ dbHeap[1].initialized
    /\ DictHas(dbHeap[1].contents, "data/type/role")

\* C30 (SpecRegistry): a default construction that returns a store built
\* before leaves an initialized store as it was, and resets a store that is
\* not initialized: its contents and key list are empty and its total is
\* -1; the other stores and the registry are as before, and no initialized
\* store becomes uninitialized.
C30_RerequestRunsInit ==
    [][/\ (ret'.op = "Database" /\ ~ret'.fresh) =>
             /\ Len(dbHeap') = Len(dbHeap)
             /\ db_classcache' = db_classcache
             /\ \A d \in 1..Len(dbHeap) :
                   IF d = ret'.val.a.n /\ ~dbHeap[d].initialized
                   THEN dbHeap'[d] = [site_url      |-> dbHeap[d].site_url,
                                       contents      |-> <<>>,
                                       epaths        |-> <<>>,
                                       total_entries |-> -1,
                                       initialized   |-> FALSE]
                   ELSE dbHeap'[d] = dbHeap[d]
       /\ \A d \in 1..Len(dbHeap) : dbHeap[d].initialized => dbHeap'[d].initialized
      ]_vars

\* C30 witness: a default construction returned a store built before that is
\* not initialized, and the store is empty, while the call before it was a
\* set on a store that is not initialized: ret tells of the call only, so
\* the witness is the state after the reset.
C30_Witness ==
    /\ ret.op = "Database"
    /\ ~ret.fresh
    /\ ~dbHeap[ret.val.a.n].initialized
    /\ dbHeap[ret.val.a.n].contents = <<>>
    /\ dbHeap[ret.val.a.n].total_entries = -1
    /\ \E d \in 1..Len(dbHeap) : d # ret.val.a.n /\ dbHeap[d].initialized

\* The calls that export a store.
Exports == {"csv_write", "tm_write", "list_write", "html_write"}

C22_CountIsFilesWritten ==
    (ret.op = "csv_write" /\ ret.exc = "") =>
       /\ ret.val.calls = 1 => ret.val.num = Len(ret.val.files)
       /\ ret.val.calls = 2 =>
             ret.val.num = csv_writes(dbHeap[ret.d], entryHeap,
                                      CSVWriter(dbHeap[ret.d]), ret.arg, 1).num

\* The runs of main(): what the command line and the run are, told from
\* the arguments and from what the run meets.
MainRun == ret.op = "main" /\ ~ret.arg.args.listepaths
Unrecognized ==
    ret.arg.args.formatstr.t = "str" /\ ret.arg.args.formatstr.s \in {"xml", "csv:xml"}
ToDirectory == ret.arg.args.formatstr.t = "str" /\ ~Unrecognized
SiteAnswers == ret.arg.env.status = "200"
DirectoryMissing == ToDirectory /\ SiteAnswers /\ ret.arg.env.outdir # "exists"
Returns(n) == ret.exc = "" /\ ret.val = ScalarV(IntA(n))

\* C23 (SpecMain): main() returns 0 when the run succeeds or the user
\* interrupts it, 1 for a format name that is not recognized, for an output
\* directory that is missing without --force and for one that is missing
\* and cannot be made with --force, and 2 when the site does not answer
\* with 200 or cannot be read.
C23_ExitCodes ==
    /\ ret.op = "main" => ret.exc = ""
    /\ (ret.op = "main" /\ ret.arg.args.listepaths) =>
          Returns(IF ret.arg.env.interrupt \/ ret.arg.env.site.indexReadable THEN 0 ELSE 2)
    /\ (MainRun /\ Unrecognized) => Returns(1)
    /\ (MainRun /\ DirectoryMissing /\ ~ret.arg.args.force) => Returns(1)
    /\ (MainRun /\ DirectoryMissing /\ ret.arg.args.force
           /\ ret.arg.env.outdir = "blocked") => Returns(1)
    /\ (MainRun /\ ~Unrecognized /\ ~SiteAnswers) => Returns(2)
    /\ (MainRun /\ ~Unrecognized /\ SiteAnswers /\ ~DirectoryMissing) =>
          Returns(IF ret.arg.env.interrupt \/ ret.arg.env.site.indexReadable THEN 0 ELSE 2)
    /\ (MainRun /\ DirectoryMissing /\ ret.arg.args.force
           /\ ret.arg.env.outdir = "missing") =>
          Returns(IF ret.arg.env.interrupt \/ ret.arg.env.site.indexReadable THEN 0 ELSE 2)

====
